---- MODULE Spec2Model ----
(***************************************************************************)
(* Model of the learning-agent workflow: the LangGraph state graph         *)
(* (pdfParser -> planner -> humanApproval -> quizGenerator <-> feedback -> *)
(* summary), the HTTP invoke handler that starts / resumes / continues a   *)
(* thread, the module-level prefetch cache and the background prefetch     *)
(* promises.                                                               *)
(*                                                                         *)
(* One step of the model is one node execution of one thread (the points   *)
(* between nodes are awaits of the runtime, so other threads interleave    *)
(* there), except that feedbackNode is cut at its only await that has      *)
(* shared state on both sides (cache.get before, cache.delete after).      *)
(***************************************************************************)
EXTENDS Integers, Sequences, FiniteSets, TLC

(* ------------------------------ bounds --------------------------------- *)
\* uploads (graph.invoke with a pdfPath) a caller makes on one thread id
MaxStarts == 2
\* objectives the planning model returns at most
MaxObjectives == 2
\* questions the quiz model returns at most for one objective
MaxQuestions == 2
\* incorrect submissions the callers make
MaxWrong == 2
\* incorrect submissions the two clients of SpecTwo make
MaxWrongTwo == 1
\* questions the quiz model and the refine model return at most in SpecReflect
MaxReflectQuestions == 3
\* phrases in one assistant response
MaxPhrases == 4
\* attempts on one question in SpecHint
MaxAttempts == 6
\* the largest correctAnswer the quiz model writes in SpecFinalize
MaxDraftAnswer == 4
\* questions of a short quiz in SpecScore
MaxScored == 3
\* questions of a long quiz in SpecScore
MaxGraded == 40

(* -------------------------- program constants -------------------------- *)
\* MCQBatchSchema: questions: z.array(MCQSchema).min(2)
MinQuestions == 2
\* const QUESTIONS_PER_OBJECTIVE = 3
QUESTIONS_PER_OBJECTIVE == 3
\* prefetchObjectiveIdx default: -1 means no prefetch available
NoPrefetchIdx == -1
\* AI_CONFIG.reflection.maxIterations
maxIterations == 2
\* AI_CONFIG.reflection.critiqueThreshold
critiqueThreshold == 7
\* the plan sizes the planner prompt asks the model for ("3-5 key learning objectives")
MinObjectives == 3
MaxPlanObjectives == 5
\* the characters checkForAnswerReveal keeps on each side of the option text
WindowChars == 50
\* the words extractKeyTerms keeps at most
KeyTermWords == 6
\* the 52 fraction bits of a JavaScript number: LimbCount limbs of LimbBits bits
LimbBits == 13
LimbCount == 4

Threads == {"t1", "t2"}
\* the value null of string | null fields
Null == "null"
\* an absent optional value / a present one
None == << >>
Some(x) == << x >>
\* {} as Record<string, number>
EmptyMap == [k \in {} |-> 0]
\* zero-based array access: a[i], undefined when out of range
Has(a, i) == i >= 0 /\ i < Len(a)
At(a, i) == a[i + 1]

(* ----------------------- JavaScript value model ------------------------ *)
\* values a caller can send as resumeValue in the JSON body
Bool(b) == [kind |-> "boolean", b |-> b, n |-> 0, s |-> ""]
Num(n) == [kind |-> "number", b |-> FALSE, n |-> n, s |-> ""]
Str(s) == [kind |-> "string", b |-> FALSE, n |-> 0, s |-> s]
\* the result of parseInt on a string with no leading digits
NaN == -99
DigitRange == -1 .. 9
\* String(n) for the numbers of the model
NumberToString(n) == ToString(n)
\* parseInt(s, 10)
parseInt(s) ==
  IF \E n \in DigitRange : NumberToString(n) = s
  THEN CHOOSE n \in DigitRange : NumberToString(n) = s
  ELSE NaN
\* JavaScript truthiness, as used by  if (approved)
Truthy(v) ==
  CASE v.kind = "boolean" -> v.b
    [] v.kind = "number" -> v.n # 0 /\ v.n # NaN
    [] OTHER -> v.s # ""
\* const safeResumeValue = typeof resumeValue === "number" ? String(resumeValue) : resumeValue
safeResumeValue(v) == IF v.kind = "number" THEN Str(NumberToString(v.n)) ELSE v
\* typeof userInput === "number" ? userInput : parseInt(userInput as string, 10)
userAnswerOf(v) ==
  CASE v.kind = "number" -> v.n
    [] v.kind = "string" -> parseInt(v.s)
    [] OTHER -> NaN
\* the resume values callers send in the model
ResumeValues == {Bool(TRUE), Bool(FALSE), Num(0), Num(1), Str("1"), Str("x")}

(* ------------------------------ documents ------------------------------ *)
\* the file multer stores for the n-th upload made for thread t
PdfPath(t, n) == t \o "-" \o ToString(n) \o ".pdf"
\* the text pdf-parse extracts from a readable file
ExtractText(path) == "text of " \o path

(* ------------------------ objectives and MCQs -------------------------- *)
\* id: `obj-${idx + 1}`    (idx is zero-based in the source, i = idx + 1 here)
ObjectiveId(i) == "obj-" \o ToString(i)
\* the objectives the planner builds from a plan of n objectives over pdfContent
objectivesWithIds(n, pdfContent) ==
  [i \in 1 .. n |-> [id |-> ObjectiveId(i), title |-> << pdfContent, i >>]]
\* id: `${objective.id}-q${idx + 1}`
QuestionId(objectiveId, i) == objectiveId \o "-q" \o ToString(i)
\* correctAnswer values the quiz model may return for a question
RawAnswers == {1, 4}
\* the four option texts of a question
OptionTexts == << "optA", "optB", "optC", "optD" >>
\* an authored hint or a progressive hint: its wording and the text quoted in it
Hint(wording, quoted) == [wording |-> wording, quoted |-> quoted]
\* a question of MCQSchema as the quiz model writes it from an objective and a
\* document: the text (with its words), four options, the index of the correct
\* one, a hint and an explanation of the correct option
RawQuestion(objective, pdfContent, a) ==
  [question |-> [about |-> objective.title, from |-> pdfContent,
                 words |-> << "what", "is", "tested?" >>],
   options |-> OptionTexts,
   correctAnswer |-> a,
   hint |-> Hint("authored", << "a" >>),
   explanation |-> << "why", a >>]
\* what generateRawMCQs can return for an objective over a document: 2..5
\* questions by the schema, each written from the objective and the content
\* (the batches of the model give all their questions the same correctAnswer)
RawBatches(objective, pdfContent) ==
  {[i \in 1 .. n |-> RawQuestion(objective, pdfContent, a)] :
     n \in MinQuestions .. MaxQuestions, a \in RawAnswers}
\* finalizeQuestions: add ids, replace an out-of-range correctAnswer by 0
finalizeQuestions(questions, objective) ==
  [i \in 1 .. Len(questions) |->
    [id |-> QuestionId(objective.id, i),
     objectiveId |-> objective.id,
     question |-> questions[i].question,
     options |-> questions[i].options,
     hint |-> questions[i].hint,
     explanation |-> questions[i].explanation,
     correctAnswer |-> IF questions[i].correctAnswer < 0 \/ questions[i].correctAnswer > 3
                       THEN 0 ELSE questions[i].correctAnswer]]
\* the batches generateQuestionsForObjective can resolve with
GeneratedBatches(objective, pdfContent) ==
  {finalizeQuestions(raw, objective) : raw \in RawBatches(objective, pdfContent)}

(* ------------------------- the session state --------------------------- *)
\* LearningStateAnnotation: the default of every channel
DefaultState ==
  [pdfPath |-> Null,
   pdfContent |-> "",
   learningObjectives |-> << >>,
   planApproved |-> FALSE,
   currentObjectiveIdx |-> 0,
   mcqs |-> << >>,
   currentMcqIdx |-> 0,
   totalExpectedMcqs |-> 0,
   prefetchedMcqs |-> << >>,
   prefetchObjectiveIdx |-> NoPrefetchIdx,
   userAnswers |-> EmptyMap,
   correctAnswers |-> 0,
   attemptCounts |-> EmptyMap,
   progressReport |-> None,
   sessionComplete |-> FALSE,
   error |-> Null,
   currentPhase |-> "upload"]
\* reducer (current, update) => ({ ...current, ...update })
MergeRecords(current, update) ==
  [k \in DOMAIN current \cup DOMAIN update |->
    IF k \in DOMAIN update THEN update[k] ELSE current[k]]
\* the channels whose reducer merges; every other reducer is (_, update) => update
MergedChannels == {"userAnswers", "attemptCounts"}
\* the state after a node's partial update went through the reducers
ApplyUpdate(s, update) ==
  [k \in DOMAIN s |->
    IF k \notin DOMAIN update THEN s[k]
    ELSE IF k \in MergedChannels THEN MergeRecords(s[k], update[k])
    ELSE update[k]]
\* userAnswers[id] / attemptCounts[id], undefined for a missing key
Lookup(m, k) == IF k \in DOMAIN m THEN Some(m[k]) ELSE None

(* ------------------------------ node results --------------------------- *)
\* a node either returns a partial state or throws the interrupt of interrupt(payload)
Return(update) == [kind |-> "return", update |-> update, payload |-> None]
Interrupt(payload) == [kind |-> "interrupt", update |-> EmptyMap, payload |-> Some(payload)]
\* NodeResponse.error(message): phase defaults to "upload"
NodeResponseError(message) == [error |-> message, currentPhase |-> "upload"]

(* ------------------------------- pdfParser ----------------------------- *)
\* pdfParserNode; readable tells whether the file exists, parses and validates
pdfParserNodeMutFailureClearsContent(s, readable) ==
  IF s.pdfPath = Null
  THEN Return([error |-> "No PDF file provided. Please upload a PDF to begin.",
               currentPhase |-> "upload"])
  ELSE IF ~readable
  THEN Return([error |-> "Failed to parse PDF", currentPhase |-> "upload", pdfContent |-> ""])
  ELSE Return([pdfContent |-> ExtractText(s.pdfPath),
               currentPhase |-> "planning",
               error |-> Null])
pdfParserNode(s, readable) ==
  IF s.pdfPath = Null
  THEN Return([error |-> "No PDF file provided. Please upload a PDF to begin.",
               currentPhase |-> "upload"])
  ELSE IF ~readable
  THEN Return([error |-> "Failed to parse PDF", currentPhase |-> "upload"])
  ELSE Return([pdfContent |-> ExtractText(s.pdfPath),
               currentPhase |-> "planning",
               error |-> Null])

(* -------------------------------- planner ------------------------------ *)
\* plannerNode; plan is None when structuredModel.invoke throws, else the
\* number of objectives of the plan it returned
plannerNode(s, plan) ==
  IF s.pdfContent = ""
  THEN Return(NodeResponseError("No PDF content available. Please upload a PDF first."))
  ELSE IF plan = None
  THEN Return(NodeResponseError("Failed to generate learning plan"))
  ELSE Return([learningObjectives |-> objectivesWithIds(plan[1], s.pdfContent),
               currentPhase |-> "approval",
               error |-> Null])

(* ----------------------------- humanApproval --------------------------- *)
\* the payload of the plan_approval interrupt
PlanApprovalInterrupt(s) ==
  [type |-> "plan_approval",
   plan |-> s.learningObjectives,
   totalObjectives |-> Len(s.learningObjectives)]
\* humanApprovalNode; resume is None on the first pass and Some(value) when the
\* node is re-entered by Command({ resume })
humanApprovalNodeMutRejectKeepsPlan(s, resume) ==
  IF Len(s.learningObjectives) = 0
  THEN Return([error |-> "No learning objectives to approve. Please try uploading the PDF again.",
               currentPhase |-> "upload"])
  ELSE IF resume = None
  THEN Interrupt(PlanApprovalInterrupt(s))
  ELSE IF Truthy(resume[1])
  THEN Return([planApproved |-> TRUE, currentPhase |-> "quiz", error |-> Null])
  ELSE Return([planApproved |-> FALSE,
               pdfContent |-> "",
               pdfPath |-> Null,
               currentPhase |-> "upload",
               error |-> Null])
humanApprovalNode(s, resume) ==
  IF Len(s.learningObjectives) = 0
  THEN Return([error |-> "No learning objectives to approve. Please try uploading the PDF again.",
               currentPhase |-> "upload"])
  ELSE IF resume = None
  THEN Interrupt(PlanApprovalInterrupt(s))
  ELSE IF Truthy(resume[1])
  THEN Return([planApproved |-> TRUE, currentPhase |-> "quiz", error |-> Null])
  ELSE Return([planApproved |-> FALSE,
               learningObjectives |-> << >>,
               pdfContent |-> "",
               pdfPath |-> Null,
               currentPhase |-> "upload",
               error |-> Null])

(* -------------------------------- routers ------------------------------ *)
afterPdfParse(s) == IF s.error # Null THEN "END" ELSE "planner"
afterPlanner(s) == IF s.error # Null THEN "END" ELSE "humanApproval"
afterApproval(s) == IF ~s.planApproved THEN "END" ELSE "quizGenerator"
afterQuizGeneratorMutEndsOnError(s) ==
  IF s.error # Null THEN "END"
  ELSE IF Len(s.mcqs) = 0 THEN "summary"
  ELSE "feedback"
afterQuizGenerator(s) ==
  IF s.error # Null THEN "summary"
  ELSE IF Len(s.mcqs) = 0 THEN "summary"
  ELSE "feedback"
afterFeedbackMutNoExit(s) ==
  LET stay ==
        /\ s.currentMcqIdx < Len(s.mcqs)
        /\ Has(s.mcqs, s.currentMcqIdx)
        /\ LET currentMcq == At(s.mcqs, s.currentMcqIdx)
               isCorrect == Lookup(s.userAnswers, currentMcq.id) = Some(currentMcq.correctAnswer)
               hasMoreQuestions == s.currentMcqIdx + 1 < Len(s.mcqs)
           IN ~isCorrect \/ hasMoreQuestions
      hasQuestionsForCurrentObjective ==
        /\ Has(s.learningObjectives, s.currentObjectiveIdx)
        /\ \E i \in 1 .. Len(s.mcqs) :
             s.mcqs[i].objectiveId = At(s.learningObjectives, s.currentObjectiveIdx).id
  IN IF stay THEN "feedback"
     ELSE IF s.currentObjectiveIdx < Len(s.learningObjectives) /\ ~hasQuestionsForCurrentObjective
     THEN "quizGenerator"
     ELSE "feedback"
afterFeedback(s) ==
  LET stay ==
        /\ s.currentMcqIdx < Len(s.mcqs)
        /\ Has(s.mcqs, s.currentMcqIdx)
        /\ LET currentMcq == At(s.mcqs, s.currentMcqIdx)
               isCorrect == Lookup(s.userAnswers, currentMcq.id) = Some(currentMcq.correctAnswer)
               hasMoreQuestions == s.currentMcqIdx + 1 < Len(s.mcqs)
           IN ~isCorrect \/ hasMoreQuestions
      hasQuestionsForCurrentObjective ==
        /\ Has(s.learningObjectives, s.currentObjectiveIdx)
        /\ \E i \in 1 .. Len(s.mcqs) :
             s.mcqs[i].objectiveId = At(s.learningObjectives, s.currentObjectiveIdx).id
  IN IF stay THEN "feedback"
     ELSE IF s.currentObjectiveIdx < Len(s.learningObjectives) /\ ~hasQuestionsForCurrentObjective
     THEN "quizGenerator"
     ELSE "summary"
\* the conditional edges of buildGraph; summary has the plain edge to END
Route(node, s) ==
  CASE node = "pdfParser" -> afterPdfParse(s)
    [] node = "planner" -> afterPlanner(s)
    [] node = "humanApproval" -> afterApproval(s)
    [] node = "quizGenerator" -> afterQuizGenerator(s)
    [] node = "feedback" -> afterFeedback(s)
    [] OTHER -> "END"

(* ----------------------------- quizGenerator --------------------------- *)
\* learningObjectives[0]?.id || "default"
getSessionKey(learningObjectives) ==
  IF Len(learningObjectives) > 0 THEN learningObjectives[1].id ELSE "default"
\* prefetchObjectiveIdx === currentObjectiveIdx && prefetchedMcqs.length > 0
hasPrefetch(s) ==
  s.prefetchObjectiveIdx = s.currentObjectiveIdx /\ Len(s.prefetchedMcqs) > 0
\* quizGeneratorNode; generated is what the awaited generateQuestionsForObjective
\* did when it was called: None when it threw, Some(batch) when it resolved
quizGeneratorNodeMutFirstIndex(s, generated) ==
  IF Len(s.learningObjectives) = 0
  THEN Return(NodeResponseError("No learning objectives available. Please start over."))
  ELSE IF ~Has(s.learningObjectives, s.currentObjectiveIdx)
  THEN Return([currentPhase |-> "summary"])
  ELSE IF ~hasPrefetch(s) /\ generated = None
  THEN Return(NodeResponseError("Failed to generate questions"))
  ELSE LET questionsForCurrent == IF hasPrefetch(s) THEN s.prefetchedMcqs ELSE generated[1]
       IN Return([mcqs |-> s.mcqs \o questionsForCurrent,
                  currentMcqIdx |-> 0,
                  totalExpectedMcqs |-> Len(s.learningObjectives) * QUESTIONS_PER_OBJECTIVE,
                  currentPhase |-> "quiz",
                  error |-> Null,
                  prefetchedMcqs |-> << >>,
                  prefetchObjectiveIdx |-> NoPrefetchIdx])
quizGeneratorNodeMutKeepsPrefetch(s, generated) ==
  IF Len(s.learningObjectives) = 0
  THEN Return(NodeResponseError("No learning objectives available. Please start over."))
  ELSE IF ~Has(s.learningObjectives, s.currentObjectiveIdx)
  THEN Return([currentPhase |-> "summary"])
  ELSE IF ~hasPrefetch(s) /\ generated = None
  THEN Return(NodeResponseError("Failed to generate questions"))
  ELSE LET questionsForCurrent == IF hasPrefetch(s) THEN s.prefetchedMcqs ELSE generated[1]
       IN Return([mcqs |-> s.mcqs \o questionsForCurrent,
                  currentMcqIdx |-> Len(s.mcqs),
                  totalExpectedMcqs |-> Len(s.learningObjectives) * QUESTIONS_PER_OBJECTIVE,
                  currentPhase |-> "quiz",
                  error |-> Null])
quizGeneratorNode(s, generated) ==
  IF Len(s.learningObjectives) = 0
  THEN Return(NodeResponseError("No learning objectives available. Please start over."))
  ELSE IF ~Has(s.learningObjectives, s.currentObjectiveIdx)
  THEN Return([currentPhase |-> "summary"])
  ELSE IF ~hasPrefetch(s) /\ generated = None
  THEN Return(NodeResponseError("Failed to generate questions"))
  ELSE LET questionsForCurrent == IF hasPrefetch(s) THEN s.prefetchedMcqs ELSE generated[1]
       IN Return([mcqs |-> s.mcqs \o questionsForCurrent,
                  currentMcqIdx |-> Len(s.mcqs),
                  totalExpectedMcqs |-> Len(s.learningObjectives) * QUESTIONS_PER_OBJECTIVE,
                  currentPhase |-> "quiz",
                  error |-> Null,
                  prefetchedMcqs |-> << >>,
                  prefetchObjectiveIdx |-> NoPrefetchIdx])
\* whether this pass calls generateQuestionsForObjective and awaits it
generatesNow(s) ==
  /\ Len(s.learningObjectives) > 0
  /\ Has(s.learningObjectives, s.currentObjectiveIdx)
  /\ ~hasPrefetch(s)
\* whether this pass reaches the fire-and-forget prefetch of the next objective
firesPrefetch(s, generated) ==
  /\ Len(s.learningObjectives) > 0
  /\ Has(s.learningObjectives, s.currentObjectiveIdx)
  /\ (hasPrefetch(s) \/ generated # None)
  /\ s.currentObjectiveIdx + 1 < Len(s.learningObjectives)
\* the objective the prefetch promise is started for
prefetchObjectiveMutCurrent(s) == At(s.learningObjectives, s.currentObjectiveIdx)
prefetchObjective(s) == At(s.learningObjectives, s.currentObjectiveIdx + 1)

(* ------------------------- progressive hints --------------------------- *)
\* A question text is the sequence of its whitespace-separated words.
\* the words the first replace of extractKeyTerms removes from the start
QuestionPrefixes == {"what", "which", "is"}
\* word.replace(/\?$/, "")
withoutQuestionMark(word) ==
  CASE word = "loop?" -> "loop"
    [] word = "recursion?" -> "recursion"
    [] word = "g?" -> "g"
    [] word = "tested?" -> "tested"
    [] OTHER -> word
\* the part of a word before its first comma or dash: None when it has neither
beforeMark(word) ==
  CASE word = "loops," -> Some("loops")
    [] word = "well-known" -> Some("well")
    [] word = "-" -> Some("")
    [] OTHER -> None
\* the words of a sequence up to the first comma or dash
RECURSIVE beforePunctuation(_)
beforePunctuation(words) ==
  IF words = << >> THEN << >>
  ELSE IF beforeMark(Head(words)) # None
       THEN IF beforeMark(Head(words))[1] = "" THEN << >>
            ELSE << beforeMark(Head(words))[1] >>
       ELSE << Head(words) >> \o beforePunctuation(Tail(words))
extractKeyTerms(question) ==
  LET unprefixed == IF question # << >> /\ Len(question) > 1 /\ Head(question) \in QuestionPrefixes
                    THEN Tail(question) ELSE question
      cleaned == IF unprefixed = << >> THEN << >>
                 ELSE SubSeq(unprefixed, 1, Len(unprefixed) - 1)
                        \o << withoutQuestionMark(unprefixed[Len(unprefixed)]) >>
      firstPhrase == SubSeq(cleaned, 1, IF KeyTermWords <= Len(cleaned)
                                        THEN KeyTermWords ELSE Len(cleaned))
  IN IF beforePunctuation(firstPhrase) # << >> THEN beforePunctuation(firstPhrase)
     ELSE cleaned
\* context?.objectiveTitle
titleOf(context) == IF context = None THEN None ELSE context[1].objectiveTitle
\* the hint of the fourth attempt with the options spelled out
fourthAttemptHintMutNamesOptions(context) ==
  IF context # None
  THEN Hint("Look carefully at the options", context[1].options)
  ELSE Hint("Take a step back", << >>)
\* attemptCount === 4; an options array is truthy whatever it holds
fourthAttemptHint(context) ==
  IF context # None
  THEN Hint("Look carefully at the options", extractKeyTerms(context[1].question))
  ELSE Hint("Take a step back", << >>)
getProgressiveHint(baseHint, attemptCount, context) ==
  IF attemptCount <= 1 THEN baseHint
  ELSE IF attemptCount = 2
       THEN IF context # None
            THEN Hint("Pay close attention to", extractKeyTerms(context[1].question))
            ELSE Hint("Re-read the question", << >>)
  ELSE IF attemptCount = 3
       THEN IF titleOf(context) # None THEN Hint("This question tests", titleOf(context)[1])
            ELSE IF context # None
                 THEN Hint("Focus on", extractKeyTerms(context[1].question))
                 ELSE Hint("Focus on the main concept", << >>)
  ELSE IF attemptCount = 4 THEN fourthAttemptHint(context)
  ELSE IF titleOf(context) # None
       THEN Hint("Final hint: The answer directly demonstrates", titleOf(context)[1])
       ELSE Hint("Final hint: The correct answer is the most specific", << >>)

(* -------------------------------- feedback ----------------------------- *)
\* learningObjectives?.[currentObjectiveIdx]?.title: None is undefined
currentObjectiveTitle(s) ==
  IF Has(s.learningObjectives, s.currentObjectiveIdx)
  THEN Some(At(s.learningObjectives, s.currentObjectiveIdx).title)
  ELSE None
\* the payload of the answer_mcq interrupt
AnswerMCQInterrupt(s) ==
  LET currentMcq == At(s.mcqs, s.currentMcqIdx)
      attempts == Lookup(s.attemptCounts, currentMcq.id)
      currentAttemptCount == (IF attempts = None THEN 0 ELSE attempts[1]) + 1
      calculatedTotalMcqs == Len(s.learningObjectives) * QUESTIONS_PER_OBJECTIVE
  IN [type |-> "answer_mcq",
      questionId |-> currentMcq.id,
      objectiveId |-> currentMcq.objectiveId,
      question |-> currentMcq.question,
      options |-> currentMcq.options,
      correctAnswer |-> currentMcq.correctAnswer,
      hint |-> getProgressiveHint(currentMcq.hint, currentAttemptCount,
                                  Some([question |-> currentMcq.question.words,
                                        options |-> currentMcq.options,
                                        objectiveTitle |-> currentObjectiveTitle(s)])),
      explanation |-> currentMcq.explanation,
      currentIndex |-> s.currentMcqIdx,
      totalQuestions |-> IF calculatedTotalMcqs # 0 THEN calculatedTotalMcqs ELSE Len(s.mcqs),
      attemptCount |-> currentAttemptCount]
\* isLastQuestionOfObjective && currentObjectiveIdx + 1 < learningObjectives.length,
\* inside  if (currentObjective)
completesObjective(s) ==
  /\ Has(s.learningObjectives, s.currentObjectiveIdx)
  /\ \/ s.currentMcqIdx + 1 >= Len(s.mcqs)
     \/ At(s.mcqs, s.currentMcqIdx + 1).objectiveId
          # At(s.learningObjectives, s.currentObjectiveIdx).id
  /\ s.currentObjectiveIdx + 1 < Len(s.learningObjectives)
\* the path feedbackNode takes on state s when interrupt() yields resume
feedbackPath(s, resume) ==
  IF Len(s.mcqs) = 0 THEN "noQuestions"
  ELSE IF ~Has(s.mcqs, s.currentMcqIdx)
  THEN (IF s.currentObjectiveIdx + 1 < Len(s.learningObjectives)
        THEN "exhaustedNext" ELSE "exhaustedLast")
  ELSE LET currentMcq == At(s.mcqs, s.currentMcqIdx)
       IN IF Lookup(s.userAnswers, currentMcq.id) = Some(currentMcq.correctAnswer)
          THEN (IF completesObjective(s) THEN "answeredNext" ELSE "answered")
          ELSE IF resume = None THEN "interrupt"
          ELSE IF userAnswerOf(resume[1]) = currentMcq.correctAnswer
          THEN (IF completesObjective(s) THEN "correctNext" ELSE "correct")
          ELSE "incorrect"
\* the paths that call resolvePrefetch(sessionKey, currentObjectiveIdx + 1)
ResolvingPaths == {"exhaustedNext", "answeredNext", "correctNext"}
\* ...(prefetchResult && { prefetchedMcqs, prefetchObjectiveIdx })
prefetchFields(prefetchResult) ==
  IF prefetchResult = None THEN EmptyMap
  ELSE [prefetchedMcqs |-> prefetchResult[1].mcqs,
        prefetchObjectiveIdx |-> prefetchResult[1].objectiveIdx]
\* what the incorrect branch returns
incorrectUpdateMutStoresAnswer(s, userAnswer) ==
  LET currentMcq == At(s.mcqs, s.currentMcqIdx)
  IN [userAnswers |-> (currentMcq.id :> userAnswer),
      attemptCounts |-> (currentMcq.id :> AnswerMCQInterrupt(s).attemptCount)]
incorrectUpdateMutCountsTwice(s, userAnswer) ==
  LET currentMcq == At(s.mcqs, s.currentMcqIdx)
  IN [attemptCounts |-> (currentMcq.id :> AnswerMCQInterrupt(s).attemptCount + 1)]
incorrectUpdate(s, userAnswer) ==
  LET currentMcq == At(s.mcqs, s.currentMcqIdx)
  IN [attemptCounts |-> (currentMcq.id :> AnswerMCQInterrupt(s).attemptCount)]
\* feedbackNode; prefetchResult is what resolvePrefetch returned on the paths
\* that call it (None for null)
feedbackNode(s, resume, prefetchResult) ==
  LET path == feedbackPath(s, resume)
      nextIdx == s.currentObjectiveIdx + 1
      currentMcq == At(s.mcqs, s.currentMcqIdx)
      newUserAnswers == MergeRecords(s.userAnswers, (currentMcq.id :> userAnswerOf(resume[1])))
  IN CASE path = "noQuestions" -> Return(NodeResponseError("No questions available."))
       [] path = "exhaustedNext" ->
            Return(MergeRecords([currentObjectiveIdx |-> nextIdx, currentPhase |-> "quiz"],
                                prefetchFields(prefetchResult)))
       [] path = "exhaustedLast" -> Return([currentPhase |-> "quiz"])
       [] path = "answeredNext" ->
            Return(MergeRecords([currentMcqIdx |-> s.currentMcqIdx + 1,
                                 currentObjectiveIdx |-> nextIdx],
                                prefetchFields(prefetchResult)))
       [] path = "answered" -> Return([currentMcqIdx |-> s.currentMcqIdx + 1])
       [] path = "interrupt" -> Interrupt(AnswerMCQInterrupt(s))
       [] path = "correctNext" ->
            Return(MergeRecords([userAnswers |-> newUserAnswers,
                                 correctAnswers |-> s.correctAnswers + 1,
                                 currentMcqIdx |-> s.currentMcqIdx + 1,
                                 currentObjectiveIdx |-> nextIdx],
                                prefetchFields(prefetchResult)))
       [] path = "correct" ->
            Return([userAnswers |-> newUserAnswers,
                    correctAnswers |-> s.correctAnswers + 1,
                    currentMcqIdx |-> s.currentMcqIdx + 1])
       [] OTHER -> Return(incorrectUpdate(s, userAnswerOf(resume[1])))

(* --------------------------- ScoreCalculator --------------------------- *)
\* the number of MCQs whose stored answer === correctAnswer
RECURSIVE correctCountOf(_, _)
correctCountOf(mcqs, userAnswers) ==
  IF Len(mcqs) = 0 THEN 0
  ELSE (IF Lookup(userAnswers, mcqs[1].id) = Some(mcqs[1].correctAnswer) THEN 1 ELSE 0)
       + correctCountOf(Tail(mcqs), userAnswers)
\* 2^k
RECURSIVE pow2(_)
pow2(k) == IF k = 0 THEN 1 ELSE 2 * pow2(k - 1)
\* JavaScript numbers are IEEE-754 doubles: a positive double is
\* 1.f * 2^exp with 52 fraction bits, kept here as LimbCount limbs of
\* LimbBits bits, most significant first.
Base == pow2(LimbBits)
Zero == [zero |-> TRUE, limbs |-> << >>, exp |-> 0]
Double(limbs, exp) == [zero |-> FALSE, limbs |-> limbs, exp |-> exp]
\* limbs + 1 in the last place; the flag tells that the carry left the fraction
RECURSIVE increment(_)
increment(limbs) ==
  IF Len(limbs) = 0 THEN [limbs |-> << >>, carry |-> TRUE]
  ELSE IF limbs[Len(limbs)] + 1 < Base
  THEN [limbs |-> [limbs EXCEPT ![Len(limbs)] = @ + 1], carry |-> FALSE]
  ELSE LET rest == increment(SubSeq(limbs, 1, Len(limbs) - 1))
       IN [limbs |-> rest.limbs \o << 0 >>, carry |-> rest.carry]
\* round to nearest, ties to even: the fraction kept, the first bit dropped
\* (guard) and whether a later dropped bit is set (sticky)
\* (an intermediate result is bound as  x \in {e}  where it is read many times:
\* a bound variable holds a value, a LET name is evaluated again at each use)
roundToNearestEven(limbs, guard, sticky, exp) ==
  CHOOSE rounded \in
    {IF guard = 1 /\ (sticky \/ kept[Len(kept)] % 2 = 1)
     THEN LET up == increment(kept)
          IN Double(up.limbs, IF up.carry THEN exp + 1 ELSE exp)
     ELSE Double(kept, exp) : kept \in {limbs}} : TRUE
\* the next n limbs of r / t for r < t
RECURSIVE quotientLimbs(_, _, _)
quotientLimbs(r, t, n) ==
  IF n = 0 THEN << >>
  ELSE << (r * Base) \div t >> \o quotientLimbs((r * Base) % t, t, n - 1)
\* the remainder after those n limbs
RECURSIVE remainderAfter(_, _, _)
remainderAfter(r, t, n) == IF n = 0 THEN r ELSE remainderAfter((r * Base) % t, t, n - 1)
\* the least k with c * 2^k >= t
RECURSIVE leadingShift(_, _)
leadingShift(c, t) == IF c >= t THEN 0 ELSE 1 + leadingShift(2 * c, t)
\* c / t for integers 0 <= c <= t, t > 0: the correctly rounded quotient
divide(c, t) ==
  IF c = 0 THEN Zero
  ELSE LET k == leadingShift(c, t)
           r == c * pow2(k) - t
           rem == remainderAfter(r, t, LimbCount)
       IN roundToNearestEven(quotientLimbs(r, t, LimbCount),
                             (2 * rem) \div t, (2 * rem) % t # 0, -k)
\* limbs * n + carry for a small integer n: the carry out in front of the limbs
RECURSIVE timesSmall(_, _, _)
timesSmall(limbs, n, carry) ==
  IF Len(limbs) = 0 THEN << carry >>
  ELSE LET v == limbs[Len(limbs)] * n + carry
       IN timesSmall(SubSeq(limbs, 1, Len(limbs) - 1), n, v \div Base) \o << v % Base >>
\* the number of binary digits of n
RECURSIVE bitLength(_)
bitLength(n) == IF n = 0 THEN 0 ELSE 1 + bitLength(n \div 2)
\* x * n for a double x and an integer 0 < n < Base: the correctly rounded product
times(x, n) ==
  IF x.zero THEN Zero
  ELSE CHOOSE rounded \in
         {LET d == bitLength(all[1]) - 1
              shifted == [i \in 1 .. LimbCount |->
                            ((all[i] % pow2(d)) * pow2(LimbBits - d)) + (all[i + 1] \div pow2(d))]
              dropped == all[LimbCount + 1] % pow2(d)
          IN IF d = 0 THEN Double(Tail(all), x.exp)
             ELSE roundToNearestEven(shifted, dropped \div pow2(d - 1),
                                     dropped % pow2(d - 1) # 0, x.exp + d) :
            all \in {LET product == timesSmall(x.limbs, n, 0)
                     IN << n + product[1] >> \o Tail(product)}} : TRUE
\* Math.round(x) for a double 0 <= x < 2^LimbBits: the nearest integer, a
\* fraction of exactly one half going up
MathRound(x) ==
  IF x.zero \/ x.exp < -1 THEN 0
  ELSE IF x.exp = -1 THEN 1
  ELSE pow2(x.exp) + (x.limbs[1] \div pow2(LimbBits - x.exp))
       + ((x.limbs[1] \div pow2(LimbBits - x.exp - 1)) % 2)
\* Math.round((correct / total) * 100), 0 when total is 0
percentageOf(correct, total) ==
  IF total > 0
  THEN CHOOSE percentage \in
         {MathRound(product) :
            product \in {times(quotient, 100) :
              quotient \in {divide(c, t) : c \in {correct}, t \in {total}}}} : TRUE
  ELSE 0
\* ScoreCalculator.calculateScore
calculateScore(mcqs, userAnswers) ==
  [totalQuestions |-> Len(mcqs),
   correctCount |-> correctCountOf(mcqs, userAnswers),
   score |-> percentageOf(correctCountOf(mcqs, userAnswers), Len(mcqs))]
\* the objectiveIds of mcqs in first-seen order (the insertion order of performanceMap)
RECURSIVE objectiveIdsOf(_, _)
objectiveIdsOf(mcqs, seen) ==
  IF Len(mcqs) = 0 THEN << >>
  ELSE IF mcqs[1].objectiveId \in seen THEN objectiveIdsOf(Tail(mcqs), seen)
  ELSE << mcqs[1].objectiveId >> \o objectiveIdsOf(Tail(mcqs), seen \cup {mcqs[1].objectiveId})
\* ScoreCalculator.calculateObjectivePerformance
calculateObjectivePerformance(mcqs, userAnswers) ==
  LET ids == objectiveIdsOf(mcqs, {})
      of(id) == SelectSeq(mcqs, LAMBDA m : m.objectiveId = id)
  IN [i \in 1 .. Len(ids) |->
       [objectiveId |-> ids[i],
        total |-> Len(of(ids[i])),
        correct |-> correctCountOf(of(ids[i]), userAnswers),
        percentage |-> percentageOf(correctCountOf(of(ids[i]), userAnswers), Len(of(ids[i])))]]
\* ScoreCalculator.identifyAreasToReview
RECURSIVE areasOf(_, _)
areasOf(performance, objectives) ==
  IF Len(performance) = 0 THEN << >>
  ELSE LET perf == performance[1]
           found == SelectSeq(objectives, LAMBDA o : o.id = perf.objectiveId)
       IN (IF perf.correct < perf.total /\ Len(found) > 0 THEN << found[1].title >> ELSE << >>)
          \o areasOf(Tail(performance), objectives)
identifyAreasToReviewMutObjectiveOrder(mcqs, userAnswers, objectives) ==
  LET performance == calculateObjectivePerformance(mcqs, userAnswers)
      weak == SelectSeq(objectives,
                        LAMBDA o : \E i \in 1 .. Len(performance) :
                                     /\ performance[i].objectiveId = o.id
                                     /\ performance[i].correct < performance[i].total)
  IN [i \in 1 .. Len(weak) |-> weak[i].title]
identifyAreasToReview(mcqs, userAnswers, objectives) ==
  CHOOSE areas \in
    {areasOf(performance, objectives) :
       performance \in {calculateObjectivePerformance(mcqs, userAnswers)}} : TRUE

(* -------------------------------- summary ------------------------------ *)
\* summaryNode; reported tells whether the report model call resolved
summaryNodeMutFallbackIncomplete(s, reported) ==
  IF Len(s.mcqs) = 0
  THEN Return(NodeResponseError("No quiz data available for summary."))
  ELSE LET scoreResult == calculateScore(s.mcqs, s.userAnswers)
       IN Return([progressReport |->
                    Some([totalQuestions |-> scoreResult.totalQuestions,
                          correctAnswers |-> scoreResult.correctCount,
                          score |-> scoreResult.score,
                          objectivesCompleted |-> Len(s.learningObjectives),
                          studyTips |-> IF reported THEN "generated" ELSE "fallback",
                          areasToReview |->
                            IF reported
                            THEN identifyAreasToReview(s.mcqs, s.userAnswers, s.learningObjectives)
                            ELSE << >>]),
                  sessionComplete |-> reported,
                  currentPhase |-> "summary",
                  error |-> Null])
summaryNode(s, reported) ==
  IF Len(s.mcqs) = 0
  THEN Return(NodeResponseError("No quiz data available for summary."))
  ELSE LET scoreResult == calculateScore(s.mcqs, s.userAnswers)
       IN Return([progressReport |->
                    Some([totalQuestions |-> scoreResult.totalQuestions,
                          correctAnswers |-> scoreResult.correctCount,
                          score |-> scoreResult.score,
                          objectivesCompleted |-> Len(s.learningObjectives),
                          studyTips |-> IF reported THEN "generated" ELSE "fallback",
                          areasToReview |->
                            IF reported
                            THEN identifyAreasToReview(s.mcqs, s.userAnswers, s.learningObjectives)
                            ELSE << >>]),
                  sessionComplete |-> TRUE,
                  currentPhase |-> "summary",
                  error |-> Null])

(* ------------------------------- variables ----------------------------- *)
VARIABLES
  values,      \* thread id -> the channel values of the thread's latest checkpoint
  next,        \* thread id -> the node the checkpoint will run next ("none": no checkpoint)
  interrupts,  \* thread id -> the pending interrupt payload of the checkpoint's task
  run,         \* thread id -> the graph.invoke call in flight for the thread
  cache,       \* the Map of prefetchCache: session key -> { promise, objectiveIdx }
  promises,    \* the prefetch promises that are still referenced
  response,    \* thread id -> the JSON body the last invoke request was answered with
  starts,      \* thread id -> uploads made so far (names the uploaded files)
  wrong,       \* incorrect submissions made so far
  consumed,    \* promise -> how often a consumer took its fulfilled result
  reflection,  \* the withReflection call in progress: position, output, counters
  chat,        \* the askStudyBuddy call in progress: position, context, messages
  hinting,     \* the getProgressiveHint call in progress: arguments and result
  copilot,     \* the UI state useCopilotSetup last rendered with, and its readables
  drafting,    \* the generateRawMCQs answer being parsed and finalized
  scoring,     \* the ScoreCalculator call in progress: arguments and results
  last         \* the step taken last

vars ==
  << values, next, interrupts, run, cache, promises, response, starts, wrong, consumed,
     reflection, chat, hinting, copilot, drafting, scoring, last >>

\* the variables of the assistants, of the hint policy, of question
\* finalization and of scoring
assistantVars == << chat, hinting, copilot, drafting, scoring >>

Idle == [active |-> FALSE, resume |-> None, awaiting |-> None]
Running(resume) == [active |-> TRUE, resume |-> resume, awaiting |-> None]
\* res.json({ state: result, interrupted, interruptData })
Ok(state, interrupted, interruptData) ==
  [kind |-> "ok", state |-> Some(state), interrupted |-> interrupted,
   interruptData |-> interruptData]
\* res.status(500).json({ error })
Failed == [kind |-> "error", state |-> None, interrupted |-> FALSE, interruptData |-> None]
Pending == [kind |-> "pending", state |-> None, interrupted |-> FALSE, interruptData |-> None]
NoResponse == [kind |-> "none", state |-> None, interrupted |-> FALSE, interruptData |-> None]
Step(t, ev, path) == [t |-> t, ev |-> ev, path |-> path]

\* a thread is suspended when its checkpoint's task holds an interrupt
Suspended(t) == interrupts[t] # None

\* no withReflection call is being followed
NotReflecting ==
  [pc |-> "idle", enabled |-> TRUE, output |-> << >>, initial |-> << >>, iterations |-> 0,
   generateCalls |-> 0, critiqueCalls |-> 0, refineCalls |-> 0,
   refined |-> FALSE, failedAt |-> ""]

\* no askStudyBuddy call is being followed
NotChatting == [pc |-> "idle", context |-> None, messages |-> << >>, produced |-> << >>]
\* no getProgressiveHint call is being followed
NotHinting ==
  [pc |-> "idle", baseHint |-> None, attemptCount |-> 0, context |-> None, result |-> None]
\* useCopilotSetup has not rendered yet
NotRendered == [pc |-> "idle", state |-> None, readables |-> << >>]
\* no generateRawMCQs answer is being followed
NotDrafting == [pc |-> "idle", questions |-> << >>, stored |-> << >>]
\* no ScoreCalculator call is being followed
NotScoring ==
  [pc |-> "idle", mcqs |-> << >>, userAnswers |-> << >>, objectives |-> << >>,
   score |-> None, areas |-> None]

Init ==
  /\ values = [t \in Threads |-> DefaultState]
  /\ next = [t \in Threads |-> "none"]
  /\ interrupts = [t \in Threads |-> None]
  /\ run = [t \in Threads |-> Idle]
  /\ cache = EmptyMap
  /\ promises = EmptyMap
  /\ response = [t \in Threads |-> NoResponse]
  /\ starts = [t \in Threads |-> 0]
  /\ wrong = 0
  /\ consumed = EmptyMap
  /\ reflection = NotReflecting
  /\ chat = NotChatting
  /\ hinting = NotHinting
  /\ copilot = NotRendered
  /\ drafting = NotDrafting
  /\ scoring = NotScoring
  /\ last = Step("t1", "init", "")

(* ------------------------- the prefetch cache -------------------------- *)
\* cache.set(threadId, entry)
cacheSet(c, key, entry) == MergeRecords(c, (key :> entry))
\* cache.delete(threadId)
cacheDelete(c, key) == [k \in DOMAIN c \ {key} |-> c[k]]
\* cache.get(threadId)
cacheGet(c, key) == Lookup(c, key)
\* the promises something still holds: a cache entry or an await of a thread
Referenced(c, r) ==
  {c[k].promise : k \in DOMAIN c}
    \cup {r[t].awaiting[1] : t \in {u \in Threads : r[u].awaiting # None}}
\* a promise nothing refers to any more cannot be observed: it is dropped
Collect(ps, c, r) == [p \in DOMAIN ps \cap Referenced(c, r) |-> ps[p]]
\* the promise generateQuestionsForObjective(nextObjective, pdfContent, ...) returns
PromiseId(t, objectiveIdx) == [t |-> t, idx |-> objectiveIdx, gen |-> starts[t]]
PendingPromise(objective, pdfContent) ==
  [status |-> "pending", objective |-> objective, pdfContent |-> pdfContent, mcqs |-> << >>]
\* !cached || cached.objectiveIdx !== nextObjectiveIdx  gives null
cacheHit(cached, nextObjectiveIdx) ==
  cached # None /\ cached[1].objectiveIdx = nextObjectiveIdx

(* ------------------------- running one node ---------------------------- *)
\* the runtime after a node of thread t ended: an interrupt is recorded on the
\* task and ends graph.invoke; a returned update goes through the reducers, the
\* conditional edge picks the next node, and END ends graph.invoke
Complete(t, node, result) ==
  IF result.kind = "interrupt"
  THEN /\ values' = values
       /\ next' = next
       /\ interrupts' = [interrupts EXCEPT ![t] = result.payload]
       /\ response' = [response EXCEPT ![t] = Ok(values[t], TRUE, result.payload)]
  ELSE \E merged \in {ApplyUpdate(values[t], result.update)} :
       \E target \in {Route(node, merged)} :
          /\ values' = [values EXCEPT ![t] = merged]
          /\ next' = [next EXCEPT ![t] = target]
          /\ interrupts' = [interrupts EXCEPT ![t] = None]
          /\ response' = [response EXCEPT ![t] =
                            IF target = "END" THEN Ok(merged, FALSE, None) ELSE @]
\* the invoke call after the node: over at an interrupt or at END
RunAfter(t, node, result) ==
  IF result.kind = "interrupt" \/ Route(node, ApplyUpdate(values[t], result.update)) = "END"
  THEN [run EXCEPT ![t] = Idle]
  ELSE [run EXCEPT ![t] = Running(None)]
Ready(t, node) == run[t].active /\ next[t] = node /\ run[t].awaiting = None

(* ------------------------- the invoke handler -------------------------- *)
\* POST /api/threads/:threadId/invoke with a pdfPath and no resumeValue:
\* graph.invoke({ pdfPath, currentPhase: "upload" }, config). The input goes
\* through the reducers onto the thread's checkpoint and the graph runs from START.
StartInvoke(t) ==
  /\ ~run[t].active
  /\ starts[t] < MaxStarts
  /\ values' = [values EXCEPT ![t] =
                  ApplyUpdate(@, [pdfPath |-> PdfPath(t, starts[t] + 1),
                                  currentPhase |-> "upload"])]
  /\ next' = [next EXCEPT ![t] = "pdfParser"]
  /\ interrupts' = [interrupts EXCEPT ![t] = None]
  /\ run' = [run EXCEPT ![t] = Running(None)]
  /\ response' = [response EXCEPT ![t] = Pending]
  /\ starts' = [starts EXCEPT ![t] = @ + 1]
  /\ last' = Step(t, "start", "")
  /\ UNCHANGED << cache, promises, wrong, consumed, reflection, assistantVars >>

\* whether resume value v is an incorrect answer to the question t is suspended at
IsWrongAnswer(t, v) ==
  /\ Suspended(t)
  /\ next[t] = "feedback"
  /\ userAnswerOf(safeResumeValue(v)) # interrupts[t][1].correctAnswer

\* graph.invoke(new Command({ resume: safeResumeValue }), config): the run it
\* starts. The interrupted task is re-entered with the value; with no
\* interrupted task there is nothing to run.
resumeRunMutAlwaysRuns(pendingInterrupt, v) == Running(Some(safeResumeValue(v)))
resumeRun(pendingInterrupt, v) ==
  IF pendingInterrupt # None THEN Running(Some(safeResumeValue(v))) ELSE Idle

\* POST /api/threads/:threadId/invoke with a resumeValue:
\* graph.invoke(new Command({ resume: safeResumeValue }), config). A suspended
\* thread re-enters its interrupted node with the value; a thread with no
\* pending task runs nothing and the call answers with the thread's values
\* (a thread without any checkpoint has none: the call may also fail).
ResumeInvoke(t, v) ==
  /\ ~run[t].active
  /\ IsWrongAnswer(t, v) => wrong < MaxWrong
  /\ IF Suspended(t)
     THEN /\ run' = [run EXCEPT ![t] = resumeRun(interrupts[t], v)]
          /\ response' = [response EXCEPT ![t] = Pending]
          /\ last' = Step(t, "resume", "suspended")
     ELSE /\ run' = [run EXCEPT ![t] = resumeRun(interrupts[t], v)]
          /\ \E r \in {Ok(values[t], FALSE, None)} \cup (IF next[t] = "none" THEN {Failed} ELSE {}) :
               response' = [response EXCEPT ![t] = r]
          /\ last' = Step(t, "resume", "idle")
  /\ wrong' = IF IsWrongAnswer(t, v) THEN wrong + 1 ELSE wrong
  /\ UNCHANGED << values, next, interrupts, cache, promises, starts, consumed, reflection, assistantVars >>

\* POST /api/threads/:threadId/invoke with neither: graph.invoke(null, config).
\* A suspended thread re-enters its node without a resume value; a finished
\* thread runs nothing; a thread without a checkpoint has no input: the call fails.
ContinueInvoke(t) ==
  /\ ~run[t].active
  /\ IF Suspended(t)
     THEN /\ run' = [run EXCEPT ![t] = Running(None)]
          /\ response' = [response EXCEPT ![t] = Pending]
          /\ last' = Step(t, "continue", "suspended")
     ELSE /\ run' = run
          /\ response' = [response EXCEPT ![t] =
                            IF next[t] = "none" THEN Failed ELSE Ok(values[t], FALSE, None)]
          /\ last' = Step(t, "continue", "idle")
  /\ UNCHANGED << values, next, interrupts, cache, promises, starts, wrong, consumed, reflection, assistantVars >>

(* ------------------------------ the nodes ------------------------------ *)
PdfParser(t) ==
  /\ Ready(t, "pdfParser")
  /\ \E readable \in BOOLEAN :
       \E result \in {pdfParserNode(values[t], readable)} :
          /\ Complete(t, "pdfParser", result)
          /\ run' = RunAfter(t, "pdfParser", result)
          /\ last' = Step(t, "pdfParser", IF readable THEN "parsed" ELSE "failed")
  /\ UNCHANGED << cache, promises, starts, wrong, consumed, reflection, assistantVars >>

Planner(t) ==
  /\ Ready(t, "planner")
  /\ \E plan \in {None} \cup {Some(n) : n \in 0 .. MaxObjectives} :
       \E result \in {plannerNode(values[t], plan)} :
          /\ Complete(t, "planner", result)
          /\ run' = RunAfter(t, "planner", result)
          /\ last' = Step(t, "planner", IF plan = None THEN "failed" ELSE "planned")
  /\ UNCHANGED << cache, promises, starts, wrong, consumed, reflection, assistantVars >>

HumanApproval(t) ==
  /\ Ready(t, "humanApproval")
  /\ \E result \in {humanApprovalNode(values[t], run[t].resume)} :
        /\ Complete(t, "humanApproval", result)
        /\ run' = RunAfter(t, "humanApproval", result)
        /\ last' = Step(t, "humanApproval",
                        IF result.kind = "interrupt" THEN "interrupt"
                        ELSE IF run[t].resume = None THEN "empty"
                        ELSE IF Truthy(run[t].resume[1]) THEN "approved" ELSE "rejected")
  /\ UNCHANGED << cache, promises, starts, wrong, consumed, reflection, assistantVars >>

QuizGenerator(t) ==
  /\ Ready(t, "quizGenerator")
  /\ LET s == values[t]
         outcomes ==
           IF generatesNow(s)
           THEN {None} \cup {Some(b) : b \in GeneratedBatches(At(s.learningObjectives, s.currentObjectiveIdx),
                                                             s.pdfContent)}
           ELSE {None}
     IN \E generated \in outcomes : \E result \in {quizGeneratorNode(s, generated)} :
          LET pid == PromiseId(t, s.currentObjectiveIdx + 1)
              cache2 ==
                IF firesPrefetch(s, generated)
                THEN cacheSet(cache, getSessionKey(s.learningObjectives),
                              [promise |-> pid, objectiveIdx |-> s.currentObjectiveIdx + 1])
                ELSE cache
              promises2 ==
                IF firesPrefetch(s, generated)
                THEN MergeRecords(promises, (pid :> PendingPromise(prefetchObjective(s), s.pdfContent)))
                ELSE promises
          IN /\ Complete(t, "quizGenerator", result)
             /\ run' = RunAfter(t, "quizGenerator", result)
             /\ cache' = cache2
             /\ promises' = Collect(promises2, cache2, run')
             /\ last' = Step(t, "quizGenerator",
                             IF result.update.currentPhase # "quiz" THEN "noQuiz"
                             ELSE IF hasPrefetch(s) THEN "prefetched" ELSE "generated")
  /\ UNCHANGED << starts, wrong, consumed, reflection, assistantVars >>

\* feedbackNode up to its return, its interrupt, or the await inside resolvePrefetch
Feedback(t) ==
  /\ Ready(t, "feedback")
  /\ LET s == values[t]
         path == feedbackPath(s, run[t].resume)
         cached == cacheGet(cache, getSessionKey(s.learningObjectives))
     IN IF path \in ResolvingPaths /\ cacheHit(cached, s.currentObjectiveIdx + 1)
        THEN /\ run' = [run EXCEPT ![t].awaiting = Some(cached[1].promise)]
             /\ last' = Step(t, "feedback", "await")
             /\ UNCHANGED << values, next, interrupts, response >>
        ELSE \E result \in {feedbackNode(s, run[t].resume, None)} :
                /\ Complete(t, "feedback", result)
                /\ run' = RunAfter(t, "feedback", result)
                /\ last' = Step(t, "feedback", path)
  /\ UNCHANGED << cache, promises, starts, wrong, consumed, reflection, assistantVars >>

\* resolvePrefetch after the await: prefetchCache.delete(sessionKey) on the
\* success path and in the catch
cacheAfterAwaitMutKeepsFailed(c, key, status) ==
  IF status = "fulfilled" THEN cacheDelete(c, key) ELSE c
cacheAfterAwait(c, key, status) == cacheDelete(c, key)
\* how often the fulfilled result of promise pid was handed to a consumer
TimesConsumed(pid) == IF pid \in DOMAIN consumed THEN consumed[pid] ELSE 0
\* feedbackNode from the await of cached.promise on: the entry of the session
\* key is deleted whether the promise fulfilled or rejected
FeedbackResolved(t) ==
  /\ run[t].active /\ next[t] = "feedback" /\ run[t].awaiting # None
  /\ LET s == values[t]
         p == promises[run[t].awaiting[1]]
         prefetchResult ==
           IF p.status = "fulfilled"
           THEN Some([mcqs |-> p.mcqs, objectiveIdx |-> s.currentObjectiveIdx + 1])
           ELSE None
         cache2 == cacheAfterAwait(cache, getSessionKey(s.learningObjectives), p.status)
     IN \E result \in {feedbackNode(s, run[t].resume, prefetchResult)} :
        /\ p.status # "pending"
        /\ Complete(t, "feedback", result)
        /\ run' = RunAfter(t, "feedback", result)
        /\ cache' = cache2
        /\ promises' = Collect(promises, cache2, run')
        /\ consumed' = IF p.status = "fulfilled"
                       THEN MergeRecords(consumed, (run[t].awaiting[1] :> TimesConsumed(run[t].awaiting[1]) + 1))
                       ELSE consumed
        /\ last' = Step(t, "feedbackResolved", p.status)
  /\ UNCHANGED << starts, wrong, reflection, assistantVars >>

Summary(t) ==
  /\ Ready(t, "summary")
  /\ \E reported \in BOOLEAN :
       \E result \in {summaryNode(values[t], reported)} :
          /\ Complete(t, "summary", result)
          /\ run' = RunAfter(t, "summary", result)
          /\ last' = Step(t, "summary", IF Len(values[t].mcqs) = 0 THEN "noData"
                                        ELSE IF reported THEN "reported" ELSE "fallback")
  /\ UNCHANGED << cache, promises, starts, wrong, consumed, reflection, assistantVars >>

\* a background generateQuestionsForObjective call settles
PrefetchSettles(pid) ==
  /\ pid \in DOMAIN promises
  /\ promises[pid].status = "pending"
  /\ \E outcome \in {None} \cup {Some(b) : b \in GeneratedBatches(promises[pid].objective,
                                                                 promises[pid].pdfContent)} :
       /\ promises' = [promises EXCEPT ![pid] =
                         IF outcome = None THEN [@ EXCEPT !.status = "rejected"]
                         ELSE [@ EXCEPT !.status = "fulfilled", !.mcqs = outcome[1]]]
       /\ last' = Step(pid.t, "prefetch", IF outcome = None THEN "rejected" ELSE "fulfilled")
  /\ UNCHANGED << values, next, interrupts, run, cache, response, starts, wrong, consumed, reflection, assistantVars >>

\* the server process restarts: the MemorySaver checkpoints, the prefetch
\* cache, the promises and the calls in flight are gone
Restart ==
  /\ \E t \in Threads : next[t] # "none"
  /\ values' = [t \in Threads |-> DefaultState]
  /\ next' = [t \in Threads |-> "none"]
  /\ interrupts' = [t \in Threads |-> None]
  /\ run' = [t \in Threads |-> Idle]
  /\ cache' = EmptyMap
  /\ promises' = EmptyMap
  /\ consumed' = EmptyMap
  /\ response' = [t \in Threads |-> IF run[t].active THEN Failed ELSE response[t]]
  /\ last' = Step("t1", "restart", "")
  /\ UNCHANGED << starts, wrong, reflection, assistantVars >>

Pids == [t : Threads, idx : 1 .. MaxObjectives, gen : 1 .. MaxStarts]

\* one client, one thread id, any sequence of requests, and server restarts
Next ==
  \/ StartInvoke("t1")
  \/ \E v \in ResumeValues : ResumeInvoke("t1", v)
  \/ ContinueInvoke("t1")
  \/ PdfParser("t1")
  \/ Planner("t1")
  \/ HumanApproval("t1")
  \/ QuizGenerator("t1")
  \/ Feedback("t1")
  \/ FeedbackResolved("t1")
  \/ Summary("t1")
  \/ \E pid \in Pids : PrefetchSettles(pid)
  \/ Restart

Spec == Init /\ [][Next]_vars

\* the first upload made for a thread id (the upload endpoint makes a fresh
\* thread id for every file)
FirstInvoke(t) == starts[t] = 0 /\ StartInvoke(t)

\* the values the quiz page and the approval page send
ClientValues == {Num(0), Num(1)}
\* a client answers the interrupt its session is suspended at
Submit(t, v) ==
  /\ Suspended(t)
  /\ IsWrongAnswer(t, v) => wrong < MaxWrongTwo
  /\ ResumeInvoke(t, v)

\* two clients, each with its own thread id, on one server process
NextTwo ==
  \/ \E t \in Threads : FirstInvoke(t)
  \/ \E t \in Threads : \E v \in ClientValues : Submit(t, v)
  \/ \E t \in Threads : PdfParser(t)
  \/ \E t \in Threads : Planner(t)
  \/ \E t \in Threads : HumanApproval(t)
  \/ \E t \in Threads : QuizGenerator(t)
  \/ \E t \in Threads : Feedback(t)
  \/ \E t \in Threads : FeedbackResolved(t)
  \/ \E t \in Threads : Summary(t)
  \/ \E pid \in Pids : PrefetchSettles(pid)

SpecTwo == Init /\ [][NextTwo]_vars

\* what the runtime and the background calls do on their own for thread t:
\* a started graph.invoke runs its nodes, and a generation call settles
RuntimeStep(t) ==
  \/ PdfParser(t)
  \/ Planner(t)
  \/ HumanApproval(t)
  \/ QuizGenerator(t)
  \/ Feedback(t)
  \/ FeedbackResolved(t)
  \/ Summary(t)
  \/ \E pid \in Pids : PrefetchSettles(pid)

\* one client, one upload, a server that stays up
NextLive ==
  \/ FirstInvoke("t1")
  \/ \E v \in ResumeValues : ResumeInvoke("t1", v)
  \/ ContinueInvoke("t1")
  \/ RuntimeStep("t1")

\* graph.invoke runs to its end and model calls return: the steps of the
\* runtime are taken when they stay possible
SpecLive == Init /\ [][NextLive]_vars /\ WF_vars(RuntimeStep("t1"))

(* ------------------------ ReflectionService ---------------------------- *)
\* the variables the workflow actions change
workflowVars ==
  << values, next, interrupts, run, cache, promises, response, starts, wrong, consumed, last >>
\* the objective and the document the followed withReflection call generates for
SampleContent == ExtractText(PdfPath("t1", 1))
SampleObjective == objectivesWithIds(1, SampleContent)[1]
\* what generateRawMCQs and refineContent can return: 2..5 questions by
\* MCQBatchSchema and RefinedMCQBatchSchema
ReflectBatches ==
  {[i \in 1 .. n |-> RawQuestion(SampleObjective, SampleContent, a)] :
     n \in MinQuestions .. MaxReflectQuestions, a \in RawAnswers}
\* what critiqueContent can return
Critiques == [needsRefinement : BOOLEAN, hasErrors : BOOLEAN, clarityScore : {6, 7}]
\* critique.needsRefinement || critique.hasErrors || critique.clarityScore < opts.critiqueThreshold
needsRefinement(critique) ==
  critique.needsRefinement \/ critique.hasErrors \/ critique.clarityScore < critiqueThreshold
\* while (iterations < opts.maxIterations)
loopContinuesMutOneMore(iterations) == iterations <= maxIterations
loopContinues(iterations) == iterations < maxIterations
\* currentOutput = { ...currentOutput, questions: refined.questions }
refinedOutput(currentOutput, refinedQuestions) == refinedQuestions

\* withReflection is called by generateQuestionsForObjective
ReflectCall ==
  /\ reflection.pc = "idle"
  /\ \E enabled \in BOOLEAN :
       reflection' = [reflection EXCEPT !.pc = "generate", !.enabled = enabled]
  /\ UNCHANGED << workflowVars, assistantVars >>

\* await generateFn(): with reflection disabled the result is returned as is
ReflectGenerate ==
  /\ reflection.pc = "generate"
  /\ \E outcome \in {None} \cup {Some(b) : b \in ReflectBatches} :
       reflection' =
         IF outcome = None
         THEN [reflection EXCEPT !.pc = "thrown", !.failedAt = "generate",
                                 !.generateCalls = @ + 1]
         ELSE [reflection EXCEPT !.pc = IF reflection.enabled THEN "loop" ELSE "returned",
                                 !.output = outcome[1], !.initial = outcome[1],
                                 !.generateCalls = @ + 1]
  /\ UNCHANGED << workflowVars, assistantVars >>

\* one pass of the loop up to the refinement: iterations++, await critiqueContent,
\* break when no refinement is needed
ReflectCritique ==
  /\ reflection.pc = "loop"
  /\ loopContinues(reflection.iterations)
  /\ \E outcome \in {None} \cup {Some(c) : c \in Critiques} :
       reflection' =
         IF outcome = None
         THEN [reflection EXCEPT !.pc = "thrown", !.failedAt = "critique",
                                 !.iterations = @ + 1, !.critiqueCalls = @ + 1]
         ELSE [reflection EXCEPT !.pc = IF needsRefinement(outcome[1]) THEN "refine"
                                        ELSE "returned",
                                 !.iterations = @ + 1, !.critiqueCalls = @ + 1]
  /\ UNCHANGED << workflowVars, assistantVars >>

\* await refineContent, then the output takes the refined questions
ReflectRefine ==
  /\ reflection.pc = "refine"
  /\ \E outcome \in {None} \cup {Some(b) : b \in ReflectBatches} :
       reflection' =
         IF outcome = None
         THEN [reflection EXCEPT !.pc = "thrown", !.failedAt = "refine",
                                 !.refineCalls = @ + 1]
         ELSE [reflection EXCEPT !.pc = "loop",
                                 !.output = refinedOutput(reflection.output, outcome[1]),
                                 !.refined = TRUE, !.refineCalls = @ + 1]
  /\ UNCHANGED << workflowVars, assistantVars >>

\* the loop condition fails: return { output: currentOutput, ... }
ReflectReturn ==
  /\ reflection.pc = "loop"
  /\ ~loopContinues(reflection.iterations)
  /\ reflection' = [reflection EXCEPT !.pc = "returned"]
  /\ UNCHANGED << workflowVars, assistantVars >>

\* what generateQuestionsForObjective does with the ended withReflection call:
\* finalizeQuestions(reflectionResult.output.questions, objective), or the
\* exception of the call passes through (None)
generateQuestionsForObjective(r) ==
  IF r.pc = "returned" THEN Some(finalizeQuestions(r.output, SampleObjective)) ELSE None
\* a session whose quizGenerator pass makes the followed call
SampleQuizState ==
  ApplyUpdate(DefaultState,
              [pdfPath |-> PdfPath("t1", 1),
               pdfContent |-> SampleContent,
               learningObjectives |-> objectivesWithIds(1, SampleContent),
               planApproved |-> TRUE,
               currentPhase |-> "quiz"])

\* one call of withReflection, every awaited model call of which settles
NextReflect ==
  \/ ReflectCall
  \/ ReflectGenerate
  \/ ReflectCritique
  \/ ReflectRefine
  \/ ReflectReturn

SpecReflect == Init /\ [][NextReflect]_vars /\ WF_vars(NextReflect)

(* --------------------- Study Buddy and its guardrail ------------------- *)
\* A message content is a sequence of phrases; a phrase stands for its
\* characters, and the offsets below are counted in characters.
MatchedKeywords == {"answer", "correct", "right choice"}
\* a phrase one of the revealPatterns matches; it holds no keyword and no option
RevealPhrases == {"you should pick B"}
\* "words" is a passage longer than the window, "word" a single word
Phrases == {"optA", "optB", "words", "word"} \cup MatchedKeywords \cup RevealPhrases
\* the length of a phrase
Width(phrase) ==
  CASE phrase = "answer" -> 6
    [] phrase = "correct" -> 7
    [] phrase = "right choice" -> 12
    [] phrase = "you should pick B" -> 17
    [] phrase = "words" -> 60
    [] phrase = "word" -> 5
    [] OTHER -> 4
\* the contents a response can have
Contents == UNION {[1 .. n -> Phrases] : n \in 1 .. MaxPhrases}
\* the character offset at which the i-th phrase of a content starts
RECURSIVE Offset(_, _)
Offset(content, i) ==
  IF i = 1 THEN 0 ELSE Offset(content, i - 1) + Width(content[i - 1])
Max(a, b) == IF a >= b THEN a ELSE b
\* pattern.test(content) for some pattern of revealPatterns
matchesRevealPattern(content) ==
  \E i \in 1 .. Len(content) : content[i] \in RevealPhrases
\* content.includes(text)
includes(content, text) == \E i \in 1 .. Len(content) : content[i] = text
\* content.indexOf(text), as the position of the first occurrence
indexOf(content, text) ==
  CHOOSE i \in 1 .. Len(content) :
    content[i] = text /\ \A j \in 1 .. i - 1 : content[j] # text
\* content.slice(from, to).includes(keyword)
sliceIncludes(content, from, to, keyword) ==
  \E j \in 1 .. Len(content) :
    /\ content[j] = keyword
    /\ Offset(content, j) >= from
    /\ Offset(content, j) + Width(keyword) <= to
\* the slice around the occurrence at position i holds one of the keywords
surroundingTextIncludes(content, i, keywords) ==
  \E keyword \in keywords :
    sliceIncludes(content, Max(0, Offset(content, i) - WindowChars),
                  Offset(content, i) + Width(content[i]) + WindowChars, keyword)
\* mcq.options[mcq.correctAnswer]: None when the index is outside the options
correctOptionOf(mcq) ==
  IF mcq.correctAnswer + 1 \in 1 .. Len(mcq.options)
  THEN Some(mcq.options[mcq.correctAnswer + 1]) ELSE None
\* a detector that flags every response holding the correct option
checkForAnswerRevealMutAnyMention(content, mcq) ==
  \/ matchesRevealPattern(content)
  \/ /\ correctOptionOf(mcq) # None
     /\ includes(content, correctOptionOf(mcq)[1])
checkForAnswerReveal(content, mcq) ==
  \/ matchesRevealPattern(content)
  \/ /\ correctOptionOf(mcq) # None
     /\ includes(content, correctOptionOf(mcq)[1])
     /\ surroundingTextIncludes(content, indexOf(content, correctOptionOf(mcq)[1]),
                                MatchedKeywords)

SystemPrompt(context) == << "system prompt", context >>
SafeResponse == << "safe redirect" >>
Message(role, content) == [role |-> role, content |-> content]
\* contextInjectionMiddleware.beforeModel
beforeModel(state, context) ==
  Some([messages |-> << Message("system", SystemPrompt(context)) >> \o state.messages])
\* educationalGuardrailsMiddleware.afterModel; None is undefined
afterModelMutApprovesAll(state, context) == None
afterModel(state, context) ==
  LET n == Len(state.messages)
  IN IF n = 0 \/ state.messages[n].role # "assistant" THEN None
     ELSE IF /\ context.currentMcq # None
             /\ checkForAnswerReveal(state.messages[n].content, context.currentMcq[1])
          THEN Some([messages |-> SubSeq(state.messages, 1, n - 1)
                                    \o << Message("assistant", SafeResponse) >>])
          ELSE None
\* applyBeforeModelHooks / applyAfterModelHooks for one hook result
applyHook(state, result) == IF result # None THEN result[1] ELSE state

\* the contexts askStudyBuddy is called with
Contexts ==
  {[currentMcq |-> None]}
    \cup {[currentMcq |-> Some([options |-> OptionTexts, correctAnswer |-> a])] :
            a \in {0, 1}}

\* askStudyBuddy up to the model call: the beforeModel hooks run on the question
AskStudyBuddy ==
  /\ chat.pc = "idle"
  /\ \E context \in Contexts :
       chat' = [pc |-> "asked",
                context |-> Some(context),
                messages |-> applyHook([messages |-> << Message("user", << "word" >>) >>],
                                       beforeModel([messages |->
                                                      << Message("user", << "word" >>) >>],
                                                   context)).messages,
                produced |-> << >>]
  /\ UNCHANGED << workflowVars, reflection, hinting, copilot, drafting, scoring >>

\* the model answers and the response is pushed onto the messages
ModelResponds ==
  /\ chat.pc = "asked"
  /\ \E content \in Contents :
       chat' = [chat EXCEPT !.pc = "responded",
                            !.messages = Append(@, Message("assistant", content)),
                            !.produced = Append(chat.messages, Message("assistant", content))]
  /\ UNCHANGED << workflowVars, reflection, hinting, copilot, drafting, scoring >>

\* the afterModel hooks run and the final state is returned
AfterModelHooks ==
  /\ chat.pc = "responded"
  /\ chat' = [chat EXCEPT !.pc = "delivered",
                          !.messages = applyHook([messages |-> chat.messages],
                                                 afterModel([messages |-> chat.messages],
                                                            chat.context[1])).messages]
  /\ UNCHANGED << workflowVars, reflection, hinting, copilot, drafting, scoring >>

\* one call of askStudyBuddy
NextChat ==
  \/ AskStudyBuddy
  \/ ModelResponds
  \/ AfterModelHooks

SpecChat == Init /\ [][NextChat]_vars

(* ------------------ the general-purpose assistant's context ------------ *)
\* the questions the UI can hold as currentMcq: the MCQ of the interrupt data
UiMcqs ==
  {[id |-> QuestionId(SampleObjective.id, i),
    objectiveId |-> oid,
    question |-> RawQuestion(SampleObjective, SampleContent, a).question,
    options |-> OptionTexts,
    correctAnswer |-> a,
    hint |-> h,
    explanation |-> << "why", a >>] :
     i \in 1 .. MinQuestions, oid \in {ObjectiveId(1), ObjectiveId(MaxObjectives + 1)},
     a \in 0 .. 3, h \in {"", "hint"}}
\* the progress report of a finished session
SampleProgressReport ==
  [score |-> 50, correctAnswers |-> 1, totalQuestions |-> MinQuestions,
   areasToReview |-> << SampleObjective.title >>]
\* the states of the learning context useCopilotSetup reads
UiStates ==
  {[phase |-> "quiz",
    threadId |-> "t1",
    objectives |-> objectivesWithIds(1, SampleContent),
    currentMcq |-> mcq,
    mcqIndex |-> idx,
    totalMcqs |-> total,
    userAttempts |-> attempts,
    planSummary |-> "summary",
    estimatedTime |-> "time",
    pdfSummary |-> SampleContent,
    progressReport |-> report] :
     mcq \in {None} \cup {Some(q) : q \in UiMcqs},
     idx \in 0 .. 1,
     total \in {0, QUESTIONS_PER_OBJECTIVE},
     attempts \in {EmptyMap} \cup {[q \in {QuestionId(SampleObjective.id, 1)} |-> n] :
                                     n \in 1 .. MaxWrong},
     report \in {None, Some(SampleProgressReport)}}
\* objectives.find((o) => o.id === id): None is undefined
findObjective(objectives, id) ==
  IF \E i \in 1 .. Len(objectives) : objectives[i].id = id
  THEN Some(objectives[CHOOSE i \in 1 .. Len(objectives) :
                          objectives[i].id = id
                          /\ \A j \in 1 .. i - 1 : objectives[j].id # id])
  ELSE None
\* userAttempts[id] || 0
attemptsShown(userAttempts, id) ==
  IF id \in DOMAIN userAttempts THEN userAttempts[id] ELSE 0
\* the value of the "Current MCQ context" readable
mcqContextMutSharesAnswer(state) ==
  IF state.currentMcq = None THEN None
  ELSE LET currentMcq == state.currentMcq[1]
       IN Some([question |-> currentMcq.question,
                options |-> currentMcq.options,
                hasHint |-> currentMcq.hint # "",
                currentObjective |-> findObjective(state.objectives, currentMcq.objectiveId),
                attemptCount |-> attemptsShown(state.userAttempts, currentMcq.id),
                questionNumber |-> state.mcqIndex + 1,
                totalQuestions |-> state.totalMcqs,
                correctAnswer |-> currentMcq.correctAnswer])
mcqContext(state) ==
  IF state.currentMcq = None THEN None
  ELSE LET currentMcq == state.currentMcq[1]
       IN Some([question |-> currentMcq.question,
                options |-> currentMcq.options,
                hasHint |-> currentMcq.hint # "",
                currentObjective |-> findObjective(state.objectives, currentMcq.objectiveId),
                attemptCount |-> attemptsShown(state.userAttempts, currentMcq.id),
                questionNumber |-> state.mcqIndex + 1,
                totalQuestions |-> state.totalMcqs])
Readable(description, value) == [description |-> description, value |-> value]
\* the useCopilotReadable calls of useCopilotSetup, in order
copilotReadables(state) ==
  << Readable("SYSTEM INSTRUCTIONS - FOLLOW THESE RULES STRICTLY", "LEARNING_ASSISTANT_PROMPT"),
     Readable("Current learning session state",
              [phase |-> state.phase,
               threadId |-> state.threadId,
               objectives |-> [i \in 1 .. Len(state.objectives) |-> state.objectives[i].title],
               currentQuestion |-> IF state.currentMcq = None THEN None
                                   ELSE Some(state.currentMcq[1].question),
               progress |-> IF state.totalMcqs > 0
                            THEN Some(<< state.mcqIndex + 1, state.totalMcqs >>)
                            ELSE None]),
     Readable("Current MCQ context (answer hidden for educational integrity)",
              mcqContext(state)),
     Readable("Learning objectives and material",
              [objectives |-> [i \in 1 .. Len(state.objectives) |->
                                 [title |-> state.objectives[i].title]],
               planSummary |-> state.planSummary,
               estimatedTime |-> state.estimatedTime,
               documentSummary |-> state.pdfSummary]),
     Readable("User progress and performance",
              IF state.progressReport = None THEN None
              ELSE Some([score |-> state.progressReport[1].score,
                         correctAnswers |-> state.progressReport[1].correctAnswers,
                         totalQuestions |-> state.progressReport[1].totalQuestions,
                         areasToReview |-> state.progressReport[1].areasToReview,
                         currentStreak |-> 0])) >>

\* the learning context holds a state when the component first renders
UiUpdate ==
  /\ copilot.pc = "idle"
  /\ \E state \in UiStates :
       copilot' = [pc |-> "updated", state |-> Some(state), readables |-> copilot.readables]
  /\ UNCHANGED << workflowVars, reflection, chat, hinting, drafting, scoring >>

\* the component renders: useCopilotSetup registers the readables of the state
CopilotSetup ==
  /\ copilot.pc = "updated"
  /\ copilot' = [copilot EXCEPT !.pc = "rendered",
                                !.readables = copilotReadables(copilot.state[1])]
  /\ UNCHANGED << workflowVars, reflection, chat, hinting, drafting, scoring >>

NextCopilot ==
  \/ UiUpdate
  \/ CopilotSetup

SpecCopilot == Init /\ [][NextCopilot]_vars

(* ------------------------- the hint policy ----------------------------- *)
\* authored hints
BaseHints == {Hint("authored", << "a" >>), Hint("authored", << "b" >>)}
SampleQuestions ==
  {<< "what", "is", "a", "loop?" >>,
   << "loops,", "or", "recursion?" >>,
   << "which", "a", "b", "c", "d", "e", "f", "g?" >>,
   << "a", "well-known", "loop?" >>,
   << "-", "a" >>}
\* option arrays a question can come with
SampleOptions == {OptionTexts, << "optD", "optC", "optB", "optA" >>}
\* the HintContext arguments: None is an omitted context or objectiveTitle
HintContexts ==
  {None} \cup {Some([question |-> q, options |-> o, objectiveTitle |-> t]) :
                 q \in SampleQuestions, o \in SampleOptions,
                 t \in {None, Some(SampleObjective.title)}}

\* getProgressiveHint is called
HintCall ==
  /\ hinting.pc = "idle"
  /\ \E baseHint \in BaseHints, attemptCount \in 0 .. MaxAttempts, context \in HintContexts :
       hinting' = [pc |-> "called", baseHint |-> baseHint, attemptCount |-> attemptCount,
                   context |-> context, result |-> None]
  /\ UNCHANGED << workflowVars, reflection, chat, copilot, drafting, scoring >>

\* getProgressiveHint returns
HintReturn ==
  /\ hinting.pc = "called"
  /\ hinting' = [hinting EXCEPT !.pc = "returned",
                                !.result = Some(getProgressiveHint(hinting.baseHint,
                                                                   hinting.attemptCount,
                                                                   hinting.context))]
  /\ UNCHANGED << workflowVars, reflection, chat, copilot, drafting, scoring >>

NextHint ==
  \/ HintCall
  \/ HintReturn

SpecHint == Init /\ [][NextHint]_vars

(* ------------------- parsing and finalizing a batch -------------------- *)
\* The numbers of this section are JavaScript numbers counted in halves: h
\* stands for h / 2, so that 2 is the number 1 and 3 is the number 1.5.
InHalves(n) == 2 * n
\* the numbers the quiz model can write for correctAnswer: -1, -0.5, .. MaxDraftAnswer
DraftAnswers == InHalves(-1) .. InHalves(MaxDraftAnswer)
\* the option arrays the quiz model can write: 3, 4 or 5 strings
DraftOptions == {SubSeq(OptionTexts, 1, 3), OptionTexts, OptionTexts \o << "optE" >>}
\* the questions the quiz model can write for the sample objective
DraftQuestions ==
  {[question |-> RawQuestion(SampleObjective, SampleContent, 0).question,
    options |-> o, correctAnswer |-> h,
    hint |-> Hint("authored", << "a" >>), explanation |-> << "why" >>] :
     o \in DraftOptions, h \in DraftAnswers}
\* MCQSchema on a question: options z.array(z.string()).length(4),
\* correctAnswer z.number().min(0).max(3)
MCQSchema(q) ==
  /\ Len(q.options) = 4
  /\ q.correctAnswer >= InHalves(0)
  /\ q.correctAnswer <= InHalves(3)
\* MCQBatchSchema: questions z.array(MCQSchema).min(2).max(5)
MCQBatchSchema(questions) ==
  /\ Len(questions) >= MinQuestions
  /\ Len(questions) <= 5
  /\ \A i \in 1 .. Len(questions) : MCQSchema(questions[i])
\* the loop of finalizeQuestions over one question, on numbers in halves:
\* if (q.correctAnswer < 0 || q.correctAnswer > 3) q.correctAnswer = 0
validateCorrectAnswer(h) ==
  IF h < InHalves(0) \/ h > InHalves(3) THEN InHalves(0) ELSE h
\* finalizeQuestions on a batch whose numbers are in halves
finalizeDraft(questions, objective) ==
  [i \in 1 .. Len(questions) |->
    [id |-> QuestionId(objective.id, i),
     objectiveId |-> objective.id,
     question |-> questions[i].question,
     options |-> questions[i].options,
     hint |-> questions[i].hint,
     explanation |-> questions[i].explanation,
     correctAnswer |-> validateCorrectAnswer(questions[i].correctAnswer)]]

\* structuredModel.invoke: the quiz model writes a batch of MinQuestions questions
QuizModelAnswers ==
  /\ drafting.pc = "idle"
  /\ \E questions \in [1 .. MinQuestions -> DraftQuestions] :
       drafting' = [pc |-> "answered", questions |-> questions, stored |-> << >>]
  /\ UNCHANGED << workflowVars, reflection, chat, hinting, copilot, scoring >>

\* withStructuredOutput(MCQBatchSchema): an answer the schema does not accept
\* makes structuredModel.invoke throw, and no question is returned
SchemaRejects ==
  /\ drafting.pc = "answered"
  /\ ~MCQBatchSchema(drafting.questions)
  /\ drafting' = [drafting EXCEPT !.pc = "rejected"]
  /\ UNCHANGED << workflowVars, reflection, chat, hinting, copilot, scoring >>

\* an accepted answer is returned by generateRawMCQs and finalized; the
\* questions returned are the ones quizGeneratorNode appends to mcqs
FinalizeDraft ==
  /\ drafting.pc = "answered"
  /\ MCQBatchSchema(drafting.questions)
  /\ drafting' = [drafting EXCEPT !.pc = "stored",
                                  !.stored = finalizeDraft(drafting.questions, SampleObjective)]
  /\ UNCHANGED << workflowVars, reflection, chat, hinting, copilot, scoring >>

NextFinalize ==
  \/ QuizModelAnswers
  \/ SchemaRejects
  \/ FinalizeDraft

SpecFinalize == Init /\ [][NextFinalize]_vars

(* ------------------------- calling ScoreCalculator --------------------- *)
\* the objective ids of the scored questions: two of the plan and one that is not
ScoreObjectiveIds == {ObjectiveId(1), ObjectiveId(2), "obj-unknown"}
\* createMockMCQ(id, objectiveId, correctAnswer): question i with its
\* objective; the correct answers go 0, 1, 2, 3, 0, ..
MockMCQ(i, objectiveId) ==
  [id |-> "q" \o ToString(i), objectiveId |-> objectiveId, correctAnswer |-> (i - 1) % 4]
\* createMockObjective(id, title)
MockObjective(id, title) == [id |-> id, title |-> title]
\* the objectives lists of the calls
ScoreObjectives ==
  {<< MockObjective(ObjectiveId(1), "Introduction"),
      MockObjective(ObjectiveId(2), "Advanced Topics") >>,
   << MockObjective(ObjectiveId(2), "Advanced Topics"),
      MockObjective(ObjectiveId(1), "Introduction") >>,
   << MockObjective(ObjectiveId(2), "Advanced Topics") >>}
\* how a question was answered: correctly, with another option, or not at all
Marks == {"correct", "wrong", "missing"}
\* the userAnswers of a list of questions answered as marks tells
AnswersOf(mcqs, marks) ==
  [id \in {mcqs[i].id : i \in {j \in 1 .. Len(mcqs) : marks[j] # "missing"}} |->
     LET i == CHOOSE j \in 1 .. Len(mcqs) : mcqs[j].id = id
     IN IF marks[i] = "correct" THEN mcqs[i].correctAnswer
        ELSE (mcqs[i].correctAnswer + 3) % 4]
\* the short quizzes: up to MaxScored questions, every objective and every mark
ShortQuizzes ==
  UNION {{[mcqs |-> [i \in 1 .. n |-> MockMCQ(i, ids[i])], marks |-> marks] :
            ids \in [1 .. n -> ScoreObjectiveIds], marks \in [1 .. n -> Marks]} :
           n \in 0 .. MaxScored}
\* a quiz of four questions over two objectives: one answered correctly, two
\* with another option, the last one not at all
ExampleQuiz ==
  [mcqs |-> << MockMCQ(1, ObjectiveId(1)), MockMCQ(2, ObjectiveId(1)),
               MockMCQ(3, ObjectiveId(2)), MockMCQ(4, ObjectiveId(2)) >>,
   marks |-> << "correct", "wrong", "wrong", "missing" >>]
\* the long quizzes: up to MaxGraded questions of one objective, the first
\* ones answered correctly and the others with another option
LongQuizzes ==
  UNION {{[mcqs |-> [i \in 1 .. total |-> MockMCQ(i, ObjectiveId(1))],
           marks |-> [i \in 1 .. total |-> IF i <= correct THEN "correct" ELSE "wrong"]] :
            correct \in 0 .. total} :
           total \in MaxScored + 1 .. MaxGraded}

\* ScoreCalculator is called on a quiz, its answers and an objectives list
ScoreCall ==
  /\ scoring.pc = "idle"
  /\ \E quiz \in ShortQuizzes \cup {ExampleQuiz} \cup LongQuizzes, objectives \in ScoreObjectives :
       scoring' = [pc |-> "called", mcqs |-> quiz.mcqs,
                   userAnswers |-> AnswersOf(quiz.mcqs, quiz.marks),
                   objectives |-> objectives, score |-> None, areas |-> None]
  /\ UNCHANGED << workflowVars, reflection, chat, hinting, copilot, drafting >>

\* calculateScore and identifyAreasToReview return
ScoreReturn ==
  /\ scoring.pc = "called"
  /\ scoring' = [scoring EXCEPT
                   !.pc = "returned",
                   !.score = Some(calculateScore(scoring.mcqs, scoring.userAnswers)),
                   !.areas = Some(identifyAreasToReview(scoring.mcqs, scoring.userAnswers,
                                                        scoring.objectives))]
  /\ UNCHANGED << workflowVars, reflection, chat, hinting, copilot, drafting >>

NextScore ==
  \/ ScoreCall
  \/ ScoreReturn

SpecScore == Init /\ [][NextScore]_vars

(* ======================= properties of the workflow ==================== *)
\* the feedback pass of thread t that takes the given path
FeedbackStep(t, path) ==
  /\ Ready(t, "feedback")
  /\ feedbackPath(values[t], run[t].resume) = path
  /\ last' = Step(t, "feedback", path)
\* attemptCounts[id] || 0
AttemptsOf(s, id) == IF id \in DOMAIN s.attemptCounts THEN s.attemptCounts[id] ELSE 0

\* C1: a resume of the answer interrupt with an answer that is not the current
\* question's correctAnswer leaves userAnswers as it was, raises the attempt
\* count of that question id by exactly 1 and leaves every other attempt count
\* alone; the pass that then suspends again changes no field.
C1_IncorrectLeavesAnswers ==
  [][\A t \in Threads :
       /\ FeedbackStep(t, "incorrect") =>
            LET s == values[t]
                qid == At(s.mcqs, s.currentMcqIdx).id
            IN /\ values'[t].userAnswers = s.userAnswers
               /\ DOMAIN values'[t].attemptCounts = DOMAIN s.attemptCounts \cup {qid}
               /\ values'[t].attemptCounts[qid] = AttemptsOf(s, qid) + 1
               /\ \A k \in DOMAIN s.attemptCounts \ {qid} :
                    values'[t].attemptCounts[k] = s.attemptCounts[k]
               /\ next'[t] = "feedback"
       /\ FeedbackStep(t, "interrupt") => values' = values]_vars
\* a second incorrect submission for one question has been counted
C1_Witness ==
  /\ last = Step("t1", "feedback", "incorrect")
  /\ \E q \in DOMAIN values["t1"].attemptCounts : values["t1"].attemptCounts[q] = 2
  /\ values["t1"].userAnswers = EmptyMap

\* C2: in every reachable state every stored answer is the correct answer of
\* the question it is stored for: userAnswers[q] = correctAnswer of every MCQ
\* of mcqs whose id is q.
C2_StoredAnswersCorrect ==
  \A t \in Threads :
    \A q \in DOMAIN values[t].userAnswers :
      \A i \in 1 .. Len(values[t].mcqs) :
        values[t].mcqs[i].id = q =>
          values[t].userAnswers[q] = values[t].mcqs[i].correctAnswer

\* C3: in every reachable state every question currentMcqIdx has moved past
\* has its correct answer stored.
C3_PassedQuestionsAnswered ==
  \A t \in Threads :
    \A i \in 0 .. Len(values[t].mcqs) - 1 :
      i < values[t].currentMcqIdx =>
        Lookup(values[t].userAnswers, At(values[t].mcqs, i).id)
          = Some(At(values[t].mcqs, i).correctAnswer)

\* the humanApproval pass of thread t that is re-entered with resume value v
ApprovalStep(t, v) ==
  /\ Ready(t, "humanApproval")
  /\ run[t].resume = Some(v)
  /\ last'.t = t /\ last'.ev = "humanApproval"

\* C4: resuming the plan approval with false leaves no objectives,
\* planApproved false, the parsed content cleared and phase upload, and ends
\* the invoke call without any quiz node; resuming it with true sets
\* planApproved, phase quiz, and quizGenerator is the node that runs next.
C4_ApprovalOutcome ==
  [][\A t \in Threads :
       /\ ApprovalStep(t, Bool(FALSE)) =>
            /\ values'[t].learningObjectives = << >>
            /\ values'[t].planApproved = FALSE
            /\ values'[t].pdfContent = ""
            /\ values'[t].currentPhase = "upload"
            /\ next'[t] = "END"
            /\ run'[t] = Idle
            /\ response'[t] = Ok(values'[t], FALSE, None)
       /\ ApprovalStep(t, Bool(TRUE)) =>
            /\ values'[t].planApproved = TRUE
            /\ values'[t].currentPhase = "quiz"
            /\ values'[t].learningObjectives = values[t].learningObjectives
            /\ next'[t] = "quizGenerator"
            /\ run'[t].active]_vars
\* a plan has been rejected
C4_Witness ==
  /\ last = Step("t1", "humanApproval", "rejected")
  /\ values["t1"].learningObjectives = << >>
  /\ response["t1"].kind = "ok"

\* the quizGenerator pass of thread t
QuizGeneratorStep(t) ==
  /\ Ready(t, "quizGenerator")
  /\ last'.t = t /\ last'.ev = "quizGenerator"
\* the feedback pass of thread t that starts to await the cached promise
AwaitStep(t) ==
  /\ Ready(t, "feedback")
  /\ last' = Step(t, "feedback", "await")
\* the rest of the feedback pass of thread t, once the awaited promise settled
ResolvedStep(t, status) ==
  /\ run[t].active /\ run[t].awaiting # None
  /\ last' = Step(t, "feedbackResolved", status)
\* every question of batch belongs to the objective at zero-based index j of s
BatchIsFor(batch, s, j) ==
  /\ Has(s.learningObjectives, j)
  /\ \A i \in 1 .. Len(batch) : batch[i].objectiveId = At(s.learningObjectives, j).id

EntriesOfOthers(t) == {k \in DOMAIN cache : cache[k].promise.t # t}

\* C6: two sessions with different thread ids do not touch each other's
\* prefetch: the passes of one session neither replace nor remove an entry
\* that holds the other session's promise, and the result a session takes from
\* a prefetch was generated from its own objective and its own content.
C6_SessionsIndependent ==
  [][\A t \in Threads :
       /\ (last'.t = t /\ last'.ev \in {"quizGenerator", "feedback", "feedbackResolved"}) =>
            \A k \in EntriesOfOthers(t) : k \in DOMAIN cache' /\ cache'[k] = cache[k]
       /\ ResolvedStep(t, "fulfilled") =>
            /\ promises[run[t].awaiting[1]].pdfContent = values[t].pdfContent
            /\ promises[run[t].awaiting[1]].objective
                 = At(values[t].learningObjectives, values[t].currentObjectiveIdx + 1)]_vars

\* C7: when the awaited prefetch promise rejected, the entry of the session
\* key is removed, no prefetch result and no error enter the state, the same
\* invoke call goes on to quizGenerator, which generates the questions itself;
\* when that generation resolves the state has error null.
C7_FailedPrefetchFallsBack ==
  [][\A t \in Threads :
       /\ ResolvedStep(t, "rejected") =>
            /\ getSessionKey(values[t].learningObjectives) \notin DOMAIN cache'
            /\ values'[t].prefetchedMcqs = << >>
            /\ values'[t].prefetchObjectiveIdx = NoPrefetchIdx
            /\ values'[t].error = Null
            /\ values'[t].currentObjectiveIdx = values[t].currentObjectiveIdx + 1
            /\ next'[t] = "quizGenerator" /\ run'[t].active
            /\ generatesNow(values'[t])
       /\ (QuizGeneratorStep(t) /\ generatesNow(values[t]) /\ last'.path = "generated") =>
            /\ values'[t].error = Null
            /\ Len(values'[t].mcqs) > Len(values[t].mcqs)
            /\ BatchIsFor(SubSeq(values'[t].mcqs, Len(values[t].mcqs) + 1, Len(values'[t].mcqs)),
                          values[t], values[t].currentObjectiveIdx)]_vars
\* a feedback pass found its awaited prefetch rejected and goes on to quizGenerator
C7_Witness ==
  /\ last = Step("t1", "feedbackResolved", "rejected")
  /\ getSessionKey(values["t1"].learningObjectives) \notin DOMAIN cache
  /\ next["t1"] = "quizGenerator"
  /\ values["t1"].error = Null

\* C8: the fulfilled result of a prefetch promise is handed to a consumer at
\* most once.
C8_ConsumedAtMostOnce ==
  \A pid \in DOMAIN consumed : consumed[pid] <= 1

\* the resume request for thread t that finds no interrupted task
IdleResumeStep(t) ==
  /\ ~run[t].active /\ ~Suspended(t)
  /\ last' = Step(t, "resume", "idle")

C10_SuspendedSurvivesRestart ==
  [][\A t \in Threads :
       (Suspended(t) /\ last'.ev = "restart") =>
         /\ interrupts'[t] = interrupts[t]
         /\ values'[t] = values[t]
         /\ next'[t] = next[t]]_vars

\* the feedback pass of thread t that is re-entered with a resume value
AnswerStep(t) ==
  /\ Ready(t, "feedback")
  /\ run[t].resume # None
  /\ feedbackPath(values[t], None) = "interrupt"
  /\ last'.t = t /\ last'.ev = "feedback"

\* C11: at the answer interrupt a numeric string has the same effect as the
\* equal number, and a resume value that is no option index (parseInt gives
\* NaN) is no attempt: it stores no answer and changes no attempt count.
C11_InvalidInputIsNoAttempt ==
  [][\A t \in Threads :
       AnswerStep(t) =>
         /\ \A n \in 0 .. 3 :
              feedbackNode(values[t], Some(Str(NumberToString(n))), None)
                = feedbackNode(values[t], Some(Num(n)), None)
         /\ userAnswerOf(run[t].resume[1]) = NaN =>
              /\ values'[t].userAnswers = values[t].userAnswers
              /\ values'[t].attemptCounts = values[t].attemptCounts]_vars

\* the followed withReflection call has ended
ReflectEnded == reflection.pc \in {"returned", "thrown"}

\* C12: withReflection ends whatever the critiques say; it calls generateFn
\* once, critiqueContent at most maxIterations times and refineContent at
\* most maxIterations times, also when every critique demands refinement.
C12_ReflectionTerminates ==
  /\ [](/\ reflection.generateCalls <= 1
        /\ reflection.critiqueCalls <= maxIterations
        /\ reflection.refineCalls <= maxIterations
        /\ reflection.iterations <= maxIterations
        /\ reflection.pc = "returned" => reflection.generateCalls = 1)
  /\ <>ReflectEnded
\* a call returned after every critique demanded a refinement
C12_Witness ==
  /\ reflection.pc = "returned"
  /\ reflection.critiqueCalls = maxIterations
  /\ reflection.refineCalls = maxIterations

\* C13: the output withReflection returns has as many questions as the output
\* of the initial generateFn call.
C13_ReflectionKeepsCount ==
  reflection.pc = "returned" => Len(reflection.output) = Len(reflection.initial)

\* C14: when a critique or refinement call fails, generation yields the
\* output produced before the failed call and quizGenerator appends its
\* questions with error null.
C14_ReflectionFailureRecovered ==
  (reflection.pc = "thrown" /\ reflection.failedAt \in {"critique", "refine"}) =>
    LET generated == generateQuestionsForObjective(reflection)
        result == quizGeneratorNode(SampleQuizState, generated)
    IN /\ generated = Some(finalizeQuestions(reflection.output, SampleObjective))
       /\ result.update.error = Null
       /\ result.update.currentPhase = "quiz"

(* ----------------------- properties of the guardrail ------------------- *)
\* the response the model produced in the followed call
ProducedContent == chat.produced[Len(chat.produced)].content
\* the messages before the response
EarlierMessages == SubSeq(chat.produced, 1, Len(chat.produced) - 1)
\* the call was made with an active question whose correct option exists
ActiveQuestion ==
  /\ chat.context # None
  /\ chat.context[1].currentMcq # None
  /\ correctOptionOf(chat.context[1].currentMcq[1]) # None
CorrectOptionText == correctOptionOf(chat.context[1].currentMcq[1])[1]
\* some occurrence of the correct option has one of the keywords in its window
SomeOccurrenceNear(keywords) ==
  \E i \in 1 .. Len(ProducedContent) :
    /\ ProducedContent[i] = CorrectOptionText
    /\ surroundingTextIncludes(ProducedContent, i, keywords)
Replaced ==
  chat.messages = EarlierMessages \o << Message("assistant", SafeResponse) >>

\* C15: with an active question, a response in which some occurrence of the
\* correct option text lies within the window of the word "answer" is delivered
\* as the safe redirect after the unchanged earlier messages.
C15_OptionNearAnswerReplaced ==
  (chat.pc = "delivered" /\ ActiveQuestion /\ SomeOccurrenceNear({"answer"}))
    => Replaced

\* C16: a response that matches no reveal pattern and in which no occurrence of
\* the correct option text has "answer", "correct" or "right choice" in its
\* window is delivered as the model produced it.
C16_CleanResponseUnchanged ==
  (/\ chat.pc = "delivered"
   /\ ~matchesRevealPattern(ProducedContent)
   /\ (ActiveQuestion => ~SomeOccurrenceNear(MatchedKeywords)))
    => chat.messages = chat.produced
\* a response holding the correct option and, far from it, the word "answer"
\* was delivered unchanged
C16_Witness ==
  /\ chat.pc = "delivered"
  /\ ActiveQuestion
  /\ includes(ProducedContent, CorrectOptionText)
  /\ includes(ProducedContent, "answer")
  /\ ~matchesRevealPattern(ProducedContent)
  /\ ~SomeOccurrenceNear(MatchedKeywords)
  /\ chat.messages = chat.produced

(* ------------- properties of the general-purpose assistant ------------- *)
\* the rendered state with another correctAnswer for the current question
WithCorrectAnswer(state, a) ==
  [state EXCEPT !.currentMcq = Some([state.currentMcq[1] EXCEPT !.correctAnswer = a])]

\* C17: the readables registered for a state with a current question are the
\* readables of every state that differs from it only in that question's
\* correctAnswer, and the question's readable has no correctAnswer field.
C17_ReadablesHideAnswer ==
  (copilot.pc = "rendered" /\ copilot.state[1].currentMcq # None)
    => /\ \A a \in 0 .. 3 :
            copilotReadables(WithCorrectAnswer(copilot.state[1], a)) = copilot.readables
       /\ "correctAnswer" \notin DOMAIN copilot.readables[3].value[1]
\* the readables of a state whose current question has correctAnswer 2 and a
\* hint were registered
C17_Witness ==
  /\ copilot.pc = "rendered"
  /\ copilot.state[1].currentMcq # None
  /\ copilot.state[1].currentMcq[1].correctAnswer = 2
  /\ copilot.readables[3].value # None
  /\ copilot.readables[3].value[1].hasHint

(* --------------------- properties of the hint policy ------------------- *)
\* the context of the followed call with other option texts
WithOptions(context, options) ==
  IF context = None THEN None ELSE Some([context[1] EXCEPT !.options = options])

\* C19: the returned hint is the authored hint for an attempt count of 1 or
\* less, the hint of attempt count 5, worded "Final hint", for every count of 5
\* or more, and for every count the hint returned for any other option texts
\* (the call takes no correctAnswer).
C19_ProgressiveHintPolicy ==
  hinting.pc = "returned"
    => /\ hinting.attemptCount <= 1 => hinting.result[1] = hinting.baseHint
       /\ hinting.attemptCount >= 5
            => /\ hinting.result[1] = getProgressiveHint(hinting.baseHint, 5, hinting.context)
               /\ hinting.result[1].wording
                    \in {"Final hint: The answer directly demonstrates",
                         "Final hint: The correct answer is the most specific"}
       /\ \A options \in SampleOptions :
            getProgressiveHint(hinting.baseHint, hinting.attemptCount,
                               WithOptions(hinting.context, options)) = hinting.result[1]
\* the hint of a fourth attempt on a question with options was returned
C19_Witness ==
  /\ hinting.pc = "returned"
  /\ hinting.attemptCount = 4
  /\ hinting.context # None
  /\ hinting.result[1].wording = "Look carefully at the options"

(* ------------------- properties of the suspended payload --------------- *)
\* the session state with another correctAnswer for the current question
WithCurrentAnswer(s, a) ==
  [s EXCEPT !.mcqs = [@ EXCEPT ![s.currentMcqIdx + 1] = [@ EXCEPT !.correctAnswer = a]]]
\* the request of t was answered with a suspended question
AnsweredWithQuestion(t) ==
  /\ response[t].kind = "ok"
  /\ response[t].interrupted
  /\ response[t].interruptData # None
  /\ response[t].interruptData[1].type = "answer_mcq"

\* C18: the payload a request is answered with when Feedback suspends holds
\* the question, its options, the progressive hint and the attempt count, and
\* is the payload of every session that differs only in the correctAnswer of
\* the current question.
C18_PayloadHidesAnswer ==
  \A t \in Threads :
    AnsweredWithQuestion(t)
      => LET s == response[t].state[1]
             payload == response[t].interruptData[1]
             currentMcq == At(s.mcqs, s.currentMcqIdx)
         IN /\ payload.question = currentMcq.question
            /\ payload.options = currentMcq.options
            /\ payload.attemptCount = AttemptsOf(s, currentMcq.id) + 1
            /\ payload.hint = getProgressiveHint(currentMcq.hint, payload.attemptCount,
                                                 Some([question |-> currentMcq.question.words,
                                                       options |-> currentMcq.options,
                                                       objectiveTitle |->
                                                         currentObjectiveTitle(s)]))
            /\ \A a \in 0 .. 3 : AnswerMCQInterrupt(WithCurrentAnswer(s, a)) = payload

(* ------------------------ properties of the phase ---------------------- *)
\* the position of a phase in the order upload, planning, approval, quiz, summary
PhaseRank(phase) ==
  CASE phase = "upload" -> 1
    [] phase = "planning" -> 2
    [] phase = "approval" -> 3
    [] phase = "quiz" -> 4
    [] phase = "summary" -> 5

\* C20: in every step the phase of a session stays or moves to a later phase
\* of the order upload, planning, approval, quiz, summary, unless the step is
\* the rejection of the plan, which moves it to upload.
C20_PhaseOnlyForward ==
  [][\A t \in Threads :
       \/ PhaseRank(values'[t].currentPhase) >= PhaseRank(values[t].currentPhase)
       \/ /\ ApprovalStep(t, Bool(FALSE))
          /\ values'[t].currentPhase = "upload"]_vars

(* ------------------------ properties of failures ----------------------- *)
NodeNames == {"pdfParser", "planner", "humanApproval", "quizGenerator", "feedback", "summary"}
\* the step is a node of thread t taking one of its failure returns
FailureStep(t) ==
  /\ last'.t = t
  /\ \/ last'.ev = "pdfParser" /\ last'.path = "failed"
     \/ last'.ev = "planner" /\ last'.path = "failed"
     \/ last'.ev = "quizGenerator" /\ last'.path = "noQuiz"
          /\ values'[t].currentPhase = "upload"
     \/ last'.ev = "feedback" /\ last'.path = "noQuestions"
     \/ last'.ev = "summary" /\ last'.path = "noData"
\* the step is a node of thread t that ends the invoke call of t
EndingStep(t) ==
  /\ last'.t = t /\ last'.ev \in NodeNames
  /\ run[t].active /\ ~run'[t].active

\* C21: a failing node leaves error set, sessionComplete false and phase
\* upload; the node that ends an invoke call in which a node has failed (the
\* state it starts from holds the error) leaves error set and sessionComplete
\* false, and the call is answered with that state.
C21_FailureReachesCaller ==
  [][\A t \in Threads :
       /\ FailureStep(t) =>
            /\ values'[t].error # Null
            /\ ~values'[t].sessionComplete
            /\ values'[t].currentPhase = "upload"
       /\ (EndingStep(t) /\ (FailureStep(t) \/ values[t].error # Null)) =>
            /\ values'[t].error # Null
            /\ ~values'[t].sessionComplete
            /\ response'[t] = Ok(values'[t], FALSE, None)]_vars

\* the planner pass of thread t
PlannerStep(t) == Ready(t, "planner") /\ last'.t = t /\ last'.ev = "planner"

\* C22: a planner pass that fails leaves error set, the objectives and the
\* phase as they were when the node was entered, and ends the invoke call
\* without running humanApproval.
C22_PlanFailureKeepsPhase ==
  [][\A t \in Threads :
       (PlannerStep(t) /\ (last'.path = "failed" \/ values[t].pdfContent = "")) =>
         /\ values'[t].error # Null
         /\ values'[t].learningObjectives = values[t].learningObjectives
         /\ values'[t].currentPhase = values[t].currentPhase
         /\ next'[t] = "END"
         /\ ~run'[t].active]_vars

\* C26: when a planner pass succeeds and humanApproval runs next, the session
\* has 3 to 5 objectives and their ids are obj-1 .. obj-n in list order.
C26_PlanSizeAndIds ==
  [][\A t \in Threads :
       (PlannerStep(t) /\ values'[t].error = Null /\ next'[t] = "humanApproval") =>
         /\ Len(values'[t].learningObjectives) >= MinObjectives
         /\ Len(values'[t].learningObjectives) <= MaxPlanObjectives
         /\ \A i \in 1 .. Len(values'[t].learningObjectives) :
              values'[t].learningObjectives[i].id = ObjectiveId(i)]_vars

\* the pdfParser pass of thread t
PdfParserStep(t) == Ready(t, "pdfParser") /\ last'.t = t /\ last'.ev = "pdfParser"

\* C23: a pdfParser pass that fails leaves error set and phase upload, the
\* parsed content and the objectives as they were, and ends the invoke call
\* with no other node run; a pass that succeeds stores the text of the file,
\* clears error, sets phase planning and is followed by the planner.
C23_ParseOutcome ==
  [][\A t \in Threads :
       /\ (PdfParserStep(t) /\ last'.path = "failed") =>
            /\ values'[t].error # Null
            /\ values'[t].currentPhase = "upload"
            /\ values'[t].pdfContent = values[t].pdfContent
            /\ values'[t].learningObjectives = values[t].learningObjectives
            /\ next'[t] = "END"
            /\ ~run'[t].active
            /\ response'[t] = Ok(values'[t], FALSE, None)
       /\ (PdfParserStep(t) /\ last'.path = "parsed") =>
            /\ values'[t].pdfContent = ExtractText(values[t].pdfPath)
            /\ values'[t].error = Null
            /\ values'[t].currentPhase = "planning"
            /\ next'[t] = "planner"
            /\ run'[t].active]_vars
\* the parse of a second upload failed on a session that holds the content
\* and the objectives of the first
C23_Witness ==
  /\ last.ev = "pdfParser" /\ last.path = "failed"
  /\ values[last.t].pdfContent # ""
  /\ Len(values[last.t].learningObjectives) > 0
  /\ values[last.t].error # Null
  /\ next[last.t] = "END"

\* the summary pass of thread t
SummaryStep(t) == Ready(t, "summary") /\ last'.t = t /\ last'.ev = "summary"

\* C24: a summary pass over a non-empty mcqs list ends with sessionComplete
\* true, phase summary, error null and a progress report whose total, correct
\* count and score are those of calculateScore, whether the report call
\* resolved or threw; over an empty mcqs list it sets error and leaves
\* sessionComplete as it was.
C24_SummaryOutcome ==
  [][\A t \in Threads :
       /\ (SummaryStep(t) /\ Len(values[t].mcqs) > 0) =>
            LET scoreResult == calculateScore(values[t].mcqs, values[t].userAnswers)
            IN /\ values'[t].sessionComplete
               /\ values'[t].currentPhase = "summary"
               /\ values'[t].error = Null
               /\ values'[t].progressReport # None
               /\ values'[t].progressReport[1].totalQuestions = scoreResult.totalQuestions
               /\ values'[t].progressReport[1].correctAnswers = scoreResult.correctCount
               /\ values'[t].progressReport[1].score = scoreResult.score
               /\ last'.path = "fallback" =>
                    values'[t].progressReport[1].studyTips = "fallback"
       /\ (SummaryStep(t) /\ Len(values[t].mcqs) = 0) =>
            /\ values'[t].error # Null
            /\ values'[t].sessionComplete = values[t].sessionComplete]_vars
\* a summary whose report call threw completed the session with the fallback tips
C24_Witness ==
  /\ last.ev = "summary" /\ last.path = "fallback"
  /\ values[last.t].sessionComplete
  /\ values[last.t].progressReport # None
  /\ values[last.t].progressReport[1].studyTips = "fallback"
  /\ values[last.t].progressReport[1].correctAnswers > 0

\* the fields a finished session is meant to keep
SessionRecord(s) ==
  << s.currentPhase, s.learningObjectives, s.mcqs, s.userAnswers, s.progressReport >>

\* C25: once a thread has sessionComplete true, no later invoke on that thread
\* id (with a resume value, with no input, or with a new pdfPath) and no node
\* pass changes its phase, objectives, mcqs, userAnswers or progress report.
C25_CompleteIsTerminal ==
  [][\A t \in Threads :
       (values[t].sessionComplete /\ last'.t = t /\ last'.ev # "restart") =>
         SessionRecord(values'[t]) = SessionRecord(values[t])]_vars

\* C27: every question that finalization returns for storage in mcqs has
\* exactly 4 options and a correctAnswer that is one of 0, 1, 2, 3, whatever
\* the quiz model wrote.
C27_StoredMcqWellFormed ==
  drafting.pc = "stored" =>
    \A i \in 1 .. Len(drafting.stored) :
      /\ Len(drafting.stored[i].options) = 4
      /\ drafting.stored[i].correctAnswer \in {InHalves(n) : n \in 0 .. 3}

\* list a is a prefix of list b
IsPrefix(a, b) == Len(a) <= Len(b) /\ SubSeq(b, 1, Len(a)) = a
\* the ids of the questions of a list are pairwise distinct
DistinctIds(mcqs) ==
  \A i, j \in 1 .. Len(mcqs) : mcqs[i].id = mcqs[j].id => i = j

\* C28: mcqs is append-only: over every invoke and node pass the mcqs list
\* before it is a prefix of the list after it, and the ids of the questions
\* in mcqs are pairwise distinct.
C28_McqsAppendOnly ==
  [][\A t \in Threads :
       (last'.t = t /\ last'.ev # "restart") =>
         /\ IsPrefix(values[t].mcqs, values'[t].mcqs)
         /\ DistinctIds(values'[t].mcqs)]_vars

\* the scored questions whose stored answer equals their correctAnswer
ScoredCorrect ==
  {i \in 1 .. Len(scoring.mcqs) :
     /\ scoring.mcqs[i].id \in DOMAIN scoring.userAnswers
     /\ scoring.userAnswers[scoring.mcqs[i].id] = scoring.mcqs[i].correctAnswer}
\* 100 * correct / total rounded half-up to an integer, 0 when total is 0
HalfUpPercentage(correct, total) ==
  IF total = 0 THEN 0 ELSE (200 * correct + total) \div (2 * total)
\* the list in the opposite order
Reversed(list) == [i \in 1 .. Len(list) |-> list[Len(list) + 1 - i]]

\* C29: calculateScore returns the number of MCQs as total, the number of MCQs
\* whose stored answer equals their correctAnswer as correct (an unanswered
\* question is not correct), and 100 * correct / total rounded half-up as
\* percentage, 0 when total is 0; the order of the MCQs does not matter.
C29_ScoreIsHalfUpPercentage ==
  scoring.pc = "returned" =>
    /\ scoring.score[1].totalQuestions = Len(scoring.mcqs)
    /\ scoring.score[1].correctCount = Cardinality(ScoredCorrect)
    /\ scoring.score[1].score =
         HalfUpPercentage(Cardinality(ScoredCorrect), Len(scoring.mcqs))
    /\ calculateScore(Reversed(scoring.mcqs), scoring.userAnswers) = scoring.score[1]

\* an objective id has a scored question whose stored answer is missing or
\* differs from its correctAnswer
HasMissedQuestion(id) ==
  \E i \in 1 .. Len(scoring.mcqs) : scoring.mcqs[i].objectiveId = id /\ i \notin ScoredCorrect
\* the position of the first scored question of an objective id
FirstSeen(id) ==
  CHOOSE i \in 1 .. Len(scoring.mcqs) :
    /\ scoring.mcqs[i].objectiveId = id
    /\ \A j \in 1 .. i - 1 : scoring.mcqs[j].objectiveId # id
\* the objectives of the list that have a missed question
ToReview ==
  {i \in 1 .. Len(scoring.objectives) : HasMissedQuestion(scoring.objectives[i].id)}

\* C30: identifyAreasToReview returns exactly the titles of the objectives of
\* the list that have at least one question whose stored answer is missing or
\* differs from correctAnswer, in the order in which their ids are first seen
\* among the MCQs; an objectiveId that is not in the objectives list adds
\* nothing, and the result is empty when every answer is correct.
C30_AreasToReview ==
  scoring.pc = "returned" =>
    LET areas == scoring.areas[1]
        objectiveOf(title) ==
          CHOOSE i \in 1 .. Len(scoring.objectives) : scoring.objectives[i].title = title
    IN /\ Len(areas) = Cardinality(ToReview)
       /\ {areas[i] : i \in 1 .. Len(areas)} = {scoring.objectives[i].title : i \in ToReview}
       /\ \A i, j \in 1 .. Len(areas) :
            i < j => FirstSeen(scoring.objectives[objectiveOf(areas[i])].id)
                       < FirstSeen(scoring.objectives[objectiveOf(areas[j])].id)
       /\ ScoredCorrect = 1 .. Len(scoring.mcqs) => areas = << >>
\* two objectives were returned in first-seen order, against the order of the
\* objectives list, and a missed question of an unknown objective added nothing
C30_Witness ==
  /\ scoring.pc = "returned"
  /\ scoring.areas[1] = << "Advanced Topics", "Introduction" >>
  /\ scoring.objectives[1].title = "Introduction"
  /\ HasMissedQuestion("obj-unknown")

\* the fields an incorrect answer is meant to leave alone
QuizPosition(s) ==
  << s.currentMcqIdx, s.currentObjectiveIdx, s.mcqs, s.userAnswers, s.correctAnswers,
     s.currentPhase >>

\* C31: after an incorrect answer the thread suspends again at the same
\* question: the pass that takes the answer changes none of currentMcqIdx,
\* currentObjectiveIdx, mcqs, userAnswers, correctAnswers and currentPhase and
\* leaves feedback ready to run again without a resume value; that pass ends
\* the invoke suspended with a payload of the same questionId whose
\* attemptCount is one higher than in the payload the answer was given to.
C31_IncorrectSuspendsAgain ==
  [][\A t \in Threads :
       /\ FeedbackStep(t, "incorrect") =>
            /\ interrupts[t] # None
            /\ interrupts[t][1].questionId = At(values[t].mcqs, values[t].currentMcqIdx).id
            /\ AttemptsOf(values'[t], interrupts[t][1].questionId)
                 = interrupts[t][1].attemptCount
            /\ QuizPosition(values'[t]) = QuizPosition(values[t])
            /\ Ready(t, "feedback")'
            /\ feedbackPath(values'[t], run'[t].resume) = "interrupt"
       /\ FeedbackStep(t, "interrupt") =>
            LET qid == At(values[t].mcqs, values[t].currentMcqIdx).id
            IN /\ values'[t] = values[t]
               /\ interrupts'[t] # None
               /\ interrupts'[t][1].questionId = qid
               /\ interrupts'[t][1].attemptCount = AttemptsOf(values[t], qid) + 1
               /\ response'[t] = Ok(values'[t], TRUE, interrupts'[t])
               /\ ~run'[t].active]_vars
\* an invoke with an incorrect answer ended suspended at the same question
\* with the attempt count of the payload raised to 2
C31_Witness ==
  /\ last = Step("t1", "feedback", "interrupt")
  /\ response["t1"].interrupted
  /\ interrupts["t1"] # None
  /\ interrupts["t1"][1].attemptCount = 2
  /\ AttemptsOf(values["t1"], interrupts["t1"][1].questionId) = 1

\* mcqs holds a question of objective number i (zero-based) of the plan
HasBatch(s, i) ==
  \E k \in 1 .. Len(s.mcqs) : s.mcqs[k].objectiveId = At(s.learningObjectives, i).id
\* the current question is the last one of its objective, it is answered
\* correctly by this pass, and a further objective exists
AnswersLastOfObjective(t) ==
  /\ run[t].active /\ next[t] = "feedback"
  /\ feedbackPath(values[t], run[t].resume) = "correctNext"
  /\ last'.ev \in {"feedback", "feedbackResolved"}
\* the objective index moves over every step of a thread by 0 or by +1
IndexStepsByOne ==
  \A t \in Threads :
    (last'.t = t /\ last'.ev # "restart") =>
      values'[t].currentObjectiveIdx \in
        {values[t].currentObjectiveIdx, values[t].currentObjectiveIdx + 1}
\* the objective index moves exactly in the pass that answers the last
\* question of the current objective while a further objective exists
IndexMovesOnCompletion ==
  \A t \in Threads :
    (last'.t = t /\ last'.ev # "restart") =>
      (values'[t].currentObjectiveIdx # values[t].currentObjectiveIdx
         <=> (AnswersLastOfObjective(t) /\ values'[t] # values[t]))
\* quizGenerator appends a batch only for an objective without questions in mcqs
BatchOncePerObjective ==
  \A t \in Threads :
    (Ready(t, "quizGenerator") /\ last' = Step(t, "quizGenerator", last'.path)
       /\ values'[t].mcqs # values[t].mcqs) =>
      ~HasBatch(values[t], values[t].currentObjectiveIdx)
\* summary runs only when mcqs holds a batch for every objective
SummaryAfterAllBatches ==
  \A t \in Threads :
    (Ready(t, "summary") /\ last' = Step(t, "summary", last'.path)) =>
      \A i \in 0 .. Len(values[t].learningObjectives) - 1 : HasBatch(values[t], i)

\* C32: objectives are quizzed in list order, each exactly once and none
\* skipped: currentObjectiveIdx only moves by +1, and exactly when the last
\* question of the current objective is answered correctly and a further
\* objective exists; quizGenerator appends a batch for an objective only when
\* mcqs holds no question of it yet; summary runs only when mcqs holds a batch
\* for every objective.
C32_ObjectivesInOrder ==
  [][IndexStepsByOne /\ IndexMovesOnCompletion /\ BatchOncePerObjective
       /\ SummaryAfterAllBatches]_vars

\* the quizGenerator pass of thread t that stores a batch
StoringStep(t) ==
  /\ Ready(t, "quizGenerator")
  /\ last'.t = t /\ last'.ev = "quizGenerator" /\ last'.path \in {"generated", "prefetched"}

\* C33: a quizGenerator pass that stores a batch for objective index i sets
\* currentMcqIdx to the position of the first question it appended; when
\* i + 1 < learningObjectives.length the cache entry of the session key then
\* holds objectiveIdx i + 1 and a promise that is still pending, otherwise the
\* cache is left as it was; and the pass does not wait for the promise: it
\* hands over to feedback at once.
C33_PrefetchFiredNotAwaited ==
  [][\A t \in Threads :
       StoringStep(t) =>
         LET s == values[t]
             key == getSessionKey(s.learningObjectives)
         IN /\ values'[t].currentMcqIdx = Len(s.mcqs)
            /\ Len(values'[t].mcqs) > Len(s.mcqs)
            /\ At(values'[t].mcqs, values'[t].currentMcqIdx).objectiveId
                 = At(s.learningObjectives, s.currentObjectiveIdx).id
            /\ IF s.currentObjectiveIdx + 1 < Len(s.learningObjectives)
               THEN /\ key \in DOMAIN cache'
                    /\ cache'[key].objectiveIdx = s.currentObjectiveIdx + 1
                    /\ cache'[key].promise \in DOMAIN promises'
                    /\ promises'[cache'[key].promise].status = "pending"
                    /\ promises'[cache'[key].promise].objective
                         = At(s.learningObjectives, s.currentObjectiveIdx + 1)
               ELSE cache' = cache
            /\ Ready(t, "feedback")']_vars
\* the thread is suspended at a question of its first objective while the
\* prefetch for the second objective is still pending
C33_Witness ==
  /\ last = Step("t1", "feedback", "interrupt")
  /\ Suspended("t1") /\ ~run["t1"].active
  /\ response["t1"].interrupted
  /\ LET key == getSessionKey(values["t1"].learningObjectives)
     IN /\ key \in DOMAIN cache
        /\ cache[key].objectiveIdx = values["t1"].currentObjectiveIdx + 1
        /\ promises[cache[key].promise].status = "pending"

\* no generation call has just failed: parsing, planning, question generation
\* in quizGenerator and in the prefetch
NoCallFailed ==
  ~(last.ev \in {"pdfParser", "planner"} /\ last.path = "failed")
    /\ ~(last.ev = "quizGenerator" /\ last.path = "noQuiz")
    /\ ~(last.ev \in {"prefetch", "feedbackResolved"} /\ last.path = "rejected")
\* thread t1 waits for the answer to a question
AtQuestion ==
  /\ ~run["t1"].active
  /\ Suspended("t1")
  /\ interrupts["t1"][1].type = "answer_mcq"
\* the correct answer to the presented question has just been submitted
CorrectSubmitted ==
  /\ last = Step("t1", "resume", "suspended")
  /\ next["t1"] = "feedback"
  /\ run["t1"].resume # None
  /\ feedbackPath(values["t1"], run["t1"].resume) \in {"correct", "correctNext"}

\* C34: every graph.invoke ends, suspended at an interrupt or at the end of
\* the graph; and when no generation call fails and the user eventually
\* submits the correct answer to each presented question, a session whose
\* plan is approved eventually has sessionComplete true.
C34_StepsEndSessionCompletes ==
  /\ run["t1"].active ~> ~run["t1"].active
  /\ ([]NoCallFailed /\ [](AtQuestion => <>CorrectSubmitted))
       => (values["t1"].planApproved ~> values["t1"].sessionComplete)
\* the session of an approved plan of two objectives is complete
C34_Witness ==
  /\ values["t1"].sessionComplete
  /\ values["t1"].planApproved
  /\ Len(values["t1"].learningObjectives) = MaxObjectives
  /\ Len(values["t1"].mcqs) >= 2 * MinQuestions
  /\ ~run["t1"].active

\* thread t is suspended at the answer interrupt of feedbackNode
AtAnswerInterrupt(t) ==
  ~run[t].active /\ Suspended(t) /\ interrupts[t][1].type = "answer_mcq"
\* summaryNode has just completed the session of thread t
JustCompleted(t) ==
  last.t = t /\ last.ev = "summary" /\ values[t].sessionComplete
\* the counters of the quiz agree: as many correct answers as stored answers
\* as questions passed
CountersAgree(s) ==
  /\ s.correctAnswers = Cardinality(DOMAIN s.userAnswers)
  /\ s.correctAnswers = s.currentMcqIdx
\* the session ended with a perfect report
PerfectReport(s) ==
  /\ s.correctAnswers = Len(s.mcqs)
  /\ s.progressReport # None
  /\ s.progressReport[1].score = 100
  /\ s.progressReport[1].areasToReview = << >>
\* C35: at every suspension at the answer interrupt the correct-answer counter
\* equals the number of stored answers and equals currentMcqIdx; and when
\* summaryNode completes the session the counter equals the number of questions,
\* the score is 100 and there is no area to review
C35_CountersAgreeAtSuspension ==
  \A t \in Threads :
    /\ AtAnswerInterrupt(t) => CountersAgree(values[t])
    /\ JustCompleted(t) => PerfectReport(values[t])
\* the same over the first upload of a thread only
C35_FirstUploadOnly ==
  \A t \in Threads : starts[t] <= 1 => 
    /\ AtAnswerInterrupt(t) => CountersAgree(values[t])
    /\ JustCompleted(t) => PerfectReport(values[t])

\* a graph.invoke call of thread t is over: suspended at an interrupt or ended
StepEnded(t) == next[t] # "none" /\ ~run[t].active
\* the prefetch fields hold their defaults
PrefetchCleared(s) ==
  Len(s.prefetchedMcqs) = 0 /\ s.prefetchObjectiveIdx = NoPrefetchIdx
\* C36: the prefetch fields are transient: whenever a graph.invoke call is over,
\* at a suspension or at the end of the graph, prefetchedMcqs is empty and
\* prefetchObjectiveIdx is -1
C36_PrefetchFieldsTransient ==
  \A t \in Threads : StepEnded(t) => PrefetchCleared(values[t])
\* the same over the first upload of a thread only
C36_FirstUploadOnly ==
  \A t \in Threads : starts[t] <= 1 /\ StepEnded(t) => PrefetchCleared(values[t])
\* a feedback pass has handed prefetched questions over in the prefetch fields
\* and the call that followed is over
C36_Witness ==
  /\ StepEnded("t1")
  /\ \E pid \in DOMAIN consumed : pid.t = "t1" /\ consumed[pid] > 0
  /\ last = Step("t1", "feedback", "interrupt")

\* humanApprovalNode of thread t is re-entered with a resume value other than
\* the boolean true, on a plan that has objectives
ResumedWithoutTrue(t) ==
  /\ HumanApproval(t)
  /\ Len(values[t].learningObjectives) > 0
  /\ run[t].resume # None
  /\ run[t].resume # Some(Bool(TRUE))
\* C37: the plan is approved only by the boolean true: a pass of humanApprovalNode
\* that is resumed with any other value (false, a number forwarded as a string,
\* a string) leaves planApproved unset and does not enter the quiz
C37_ApprovedOnlyByTrue ==
  [][\A t \in Threads :
       ResumedWithoutTrue(t) =>
         /\ ~values'[t].planApproved
         /\ values'[t].currentPhase # "quiz"
         /\ next'[t] # "quizGenerator"]_vars

\* the messages of the errors the quiz nodes return
QuizErrors ==
  {"Failed to generate questions",
   "No learning objectives available. Please start over.",
   "No questions available.",
   "No quiz data available for summary."}
\* the last run of thread t ended in the upload phase with an error of the quiz
QuizErrorEnded(t) ==
  /\ StepEnded(t)
  /\ values[t].planApproved
  /\ values[t].currentPhase = "upload"
  /\ values[t].error \in QuizErrors
\* nothing of a quiz is in the state
CleanQuizState(s) ==
  /\ s.mcqs = << >>
  /\ s.userAnswers = EmptyMap
  /\ s.attemptCounts = EmptyMap
  /\ s.correctAnswers = 0
  /\ s.currentObjectiveIdx = 0
  /\ s.currentMcqIdx = 0
\* no prefetch of thread t is cached or in flight
NoPrefetchOf(t) ==
  \A pid \in DOMAIN promises : pid.t # t
\* C38: an upload to a thread whose last run ended in the upload phase after an
\* error of the quiz starts the new run from a clean quiz state: no questions,
\* stored answers, attempt counts, counter or indices of the earlier run are in
\* the state the new run starts from, and no prefetch of the earlier run is left
\* (such an end is reached with an empty quiz only, and the upload adds nothing)
C38_CleanStartAfterQuizError ==
  [][\A t \in Threads :
       /\ QuizErrorEnded(t) => CleanQuizState(values[t]) /\ NoPrefetchOf(t)
       /\ QuizErrorEnded(t) /\ StartInvoke(t) =>
            CleanQuizState(values'[t]) /\ NoPrefetchOf(t)']_vars
\* the second upload of thread t1 has started after such an end
C38_Witness ==
  /\ last = Step("t1", "start", "")
  /\ starts["t1"] = 2
  /\ values["t1"].planApproved
  /\ values["t1"].error \in QuizErrors
  /\ next["t1"] = "pdfParser"

\* the last message of a message list
LastMessage(messages) == messages[Len(messages)]
\* no message of the list is an assistant message
NoAssistantMessage(messages) ==
  \A i \in 1 .. Len(messages) : messages[i].role # "assistant"
\* the guardrail flags the raw response m under the context of the call
Flagged(m, context) ==
  /\ context.currentMcq # None
  /\ checkForAnswerReveal(m.content, context.currentMcq[1])
\* C39: every response of askStudyBuddy went through the afterModel guardrail:
\* the beforeModel hooks run before the model is called (the system prompt is
\* in front and no assistant message exists yet), the model's raw response is
\* appended as the last message, the afterModel hooks run on that state, and
\* the delivered content is the last message they leave; a call delivers only
\* after that pass, and a flagged raw response is never the delivered one
C39_GuardrailBeforeDelivery ==
  [][chat' # chat =>
       /\ chat'.pc = "asked" =>
            /\ chat.pc = "idle"
            /\ chat'.messages[1] = Message("system", SystemPrompt(chat'.context[1]))
            /\ NoAssistantMessage(chat'.messages)
       /\ chat'.pc = "responded" =>
            /\ chat.pc = "asked"
            /\ Len(chat'.messages) = Len(chat.messages) + 1
            /\ SubSeq(chat'.messages, 1, Len(chat.messages)) = chat.messages
            /\ LastMessage(chat'.messages).role = "assistant"
       /\ chat'.pc = "delivered" =>
            /\ chat.pc = "responded"
            /\ chat'.messages[1] = Message("system", SystemPrompt(chat.context[1]))
            /\ LastMessage(chat'.messages) =
                 IF Flagged(LastMessage(chat.messages), chat.context[1])
                 THEN Message("assistant", SafeResponse)
                 ELSE LastMessage(chat.messages)]_vars
\* a call has delivered the safe response in place of a flagged raw response
C39_Witness ==
  /\ chat.pc = "delivered"
  /\ LastMessage(chat.messages) = Message("assistant", SafeResponse)
  /\ LastMessage(chat.produced).content # SafeResponse
  /\ Flagged(LastMessage(chat.produced), chat.context[1])
====
